---- MODULE Spec2Model ----
(***************************************************************************)
(* Token authority of the OpenCloud Android client (AndroidAuthService,    *)
(* gfn/auth.ts) and its entry point ensureAuthInit (platform index).       *)
(*                                                                         *)
(* Execution model: one JavaScript event loop.  A task (one caller's       *)
(* asynchronous call chain) runs without interruption until it awaits an   *)
(* external event: a network response, the stored preferences, or a        *)
(* promise another task resolves (refreshLock, authInitPromise).  A        *)
(* continuation made runnable by a resolved promise is a microtask: it     *)
(* runs before any new macrotask (a fresh API call, a response, a clock    *)
(* tick).  preferencesSet is taken to succeed and to take effect at the    *)
(* call, so a trailing persist() belongs to the step that calls it.        *)
(***************************************************************************)
EXTENDS Integers, Sequences, FiniteSets, TLC

\* ------------------------------------------------------------- bounds
NumCallers == 2
MaxOps == 2
MaxEmitted == 2
MaxTicks == 1
MaxIssued == 2
NumListeners == 1
MaxExchanges == 2

Callers == 1..NumCallers
InitTask == 0
Tasks == 0..NumCallers
Listeners == 1..NumListeners

\* ------------------------------------------------------------- values
NoToken == 0
NoOp == 0
NoExpiresIn == -1
NoSub == "none"
NoVpc == "none"
DefaultExpiresIn == 86400
RefreshWindowMs == 10 * 60 * 1000
TickMs == 5 * 60 * 1000

NoTokens ==
  [accessToken |-> NoToken, refreshToken |-> NoToken, idToken |-> NoToken,
   claims |-> FALSE, expiresAt |-> 0]

NullSession ==
  [present |-> FALSE, tokens |-> NoTokens, hasUser |-> FALSE, tier |-> "none"]

NoResult ==
  [task |-> 0, op |-> "none", forced |-> FALSE, outcome |-> "none",
   session |-> NullSession, retry |-> FALSE, token |-> NoToken,
   refreshed |-> NoTokens, locks |-> 0,
   dropped |-> [session |-> FALSE, subscription |-> FALSE, vpcId |-> FALSE]]

NoPkce == 0

\* no CloudMatch call has been made
NoCall ==
  [fn |-> "none", pc |-> "idle", serverIp |-> <<>>, attempt |-> 0, requests |-> 0,
   waits |-> 0, waited |-> 0, response |-> [net |-> "none"],
   result |-> [kind |-> "none"]]

\* no signaling client has been created
NoSignaling ==
  [client |-> 0, key |-> "none", isStreaming |-> FALSE, clients |-> <<>>,
   events |-> <<>>, call |-> "none", result |-> "none"]

NewFrame(fn, via, force, tokens) ==
  [fn |-> fn, via |-> via, pc |-> "run", force |-> force, tokens |-> tokens,
   op |-> NoOp, refreshed |-> NoTokens]

\* the bearer a caller is handed: idToken ?? accessToken
Bearer(tokens) ==
  IF tokens.idToken # NoToken THEN tokens.idToken ELSE tokens.accessToken

\* ------------------------------------------------------------- inputs
\* What the credential store can hold when the process starts.
\* A stored token expired before the process started, or expires exactly the
\* refresh window after it (and is near expiry one tick later).
StoredTokens ==
  { [accessToken |-> 1, refreshToken |-> rt, idToken |-> 3, claims |-> TRUE,
     expiresAt |-> e] : rt \in {NoToken, 2}, e \in {-TickMs, RefreshWindowMs} }

InitialStorage ==
  { [kind |-> "none", session |-> NullSession],
    [kind |-> "corrupt", session |-> NullSession],
    [kind |-> "state", session |-> NullSession] }
  \cup
  { [kind |-> "state",
     session |-> [present |-> TRUE, tokens |-> t, hasUser |-> TRUE, tier |-> "FREE"]] :
    t \in StoredTokens }

\* Token-endpoint responses to the n-th successful grant, and the failures.
TokenPayload(n, rot, idt, exp) ==
  [ok |-> TRUE, access_token |-> 10 * n + 1,
   refresh_token |-> IF rot THEN 10 * n + 2 ELSE NoToken,
   id_token |-> IF idt THEN 10 * n + 3 ELSE NoToken,
   claims |-> idt, expires_in |-> exp]

HttpErrorResponse ==
  [ok |-> FALSE, access_token |-> NoToken, refresh_token |-> NoToken,
   id_token |-> NoToken, claims |-> FALSE, expires_in |-> NoExpiresIn]

EmptyTokenResponse == [HttpErrorResponse EXCEPT !.ok = TRUE]

\* rotated refresh token and ID token with claims; neither (the access token
\* is opaque, so the user comes from the userinfo endpoint); a short-lived set
GoodResponses(n) ==
  { TokenPayload(n, TRUE, TRUE, NoExpiresIn),
    TokenPayload(n, FALSE, FALSE, NoExpiresIn),
    TokenPayload(n, TRUE, TRUE, 300) }

SubscriptionTiers == {"ULTIMATE"}

\* ------------------------------------------------------------- state
VARIABLES
  now,                \* Date.now(), in ms since the process started
  storage,            \* the credential store's auth_state blob
  session,            \* AndroidAuthService.session
  cachedSubscription, \* AndroidAuthService.cachedSubscription
  cachedVpcId,        \* AndroidAuthService.cachedVpcId
  refreshLock,        \* AndroidAuthService.refreshLock: the pending operation
  listeners,          \* AndroidAuthService.sessionExpiredListeners
  authInitPromise,    \* the platform's authInitPromise: unset, pending, done
  ops,                \* every performTokenRefresh() started so far
  emitted,            \* every session-expired notification, in order
  stack,              \* per task: its chain of suspended async calls
  last,               \* the call that returned in the step just taken, if any
  lockCalls,          \* per task: lockedRefresh() calls made by its current call
  issued,             \* token sets granted by the token endpoint so far
  loads,              \* preferencesGet(auth_state) calls made so far
  pendingPkce,        \* AndroidAuthService.pendingPkce: the verifier held, or none
  exchanges,          \* authorization-code exchanges sent so far
  cm,                 \* the CloudMatch call in progress and what it did so far
  chan                 \* the signaling channel: the platform's client and every socket

vars ==
  <<now, storage, session, cachedSubscription, cachedVpcId, refreshLock,
    listeners, authInitPromise, ops, emitted, stack, last,
    lockCalls, issued, loads, pendingPkce, exchanges, cm, chan>>

\* The part of the state a running continuation reads and writes.
World ==
  [now |-> now, storage |-> storage, session |-> session,
   cachedSubscription |-> cachedSubscription, cachedVpcId |-> cachedVpcId,
   refreshLock |-> refreshLock, listeners |-> listeners,
   authInitPromise |-> authInitPromise, ops |-> ops, emitted |-> emitted,
   stack |-> stack, last |-> NoResult, lockCalls |-> lockCalls, loads |-> loads,
   pendingPkce |-> pendingPkce, exchanges |-> exchanges]

Commit(W) ==
  /\ storage' = W.storage
  /\ session' = W.session
  /\ cachedSubscription' = W.cachedSubscription
  /\ cachedVpcId' = W.cachedVpcId
  /\ refreshLock' = W.refreshLock
  /\ authInitPromise' = W.authInitPromise
  /\ ops' = W.ops
  /\ emitted' = W.emitted
  /\ stack' = W.stack
  /\ last' = W.last
  /\ lockCalls' = W.lockCalls
  /\ loads' = W.loads
  /\ pendingPkce' = W.pendingPkce
  /\ exchanges' = W.exchanges

Top(W, p) == W.stack[p][Len(W.stack[p])]
SetTop(W, p, f) == [W EXCEPT !.stack[p][Len(W.stack[p])] = f]
Push(W, p, f) == [W EXCEPT !.stack[p] = Append(@, f)]
Pop(W, p) == [W EXCEPT !.stack[p] = SubSeq(@, 1, Len(@) - 1)]

\* ------------------------------------------------------------- pure parts
shouldRefresh_Always(tokens, t) == TRUE

shouldRefresh(tokens, t) == tokens.expiresAt - t < RefreshWindowMs

ExpiresInOr(payload) ==
  IF payload.expires_in = NoExpiresIn THEN DefaultExpiresIn ELSE payload.expires_in

\* refreshAuthTokens after the response arrived: [ok, tokens]; not ok = it throws
refreshAuthTokens(refreshToken, payload, t) ==
  IF ~payload.ok \/ payload.access_token = NoToken
  THEN [ok |-> FALSE, tokens |-> NoTokens]
  ELSE [ok |-> TRUE,
        tokens |->
          [accessToken |-> payload.access_token,
           refreshToken |-> IF payload.refresh_token # NoToken
                            THEN payload.refresh_token ELSE refreshToken,
           idToken |-> payload.id_token,
           claims |-> payload.claims,
           expiresAt |-> t + ExpiresInOr(payload) * 1000]]

\* refreshViaClientToken after the response arrived
refreshViaClientToken(refreshToken, payload, t) ==
  IF ~payload.ok \/ payload.access_token = NoToken
  THEN [ok |-> FALSE, tokens |-> NoTokens]
  ELSE [ok |-> TRUE,
        tokens |->
          [accessToken |-> payload.access_token,
           refreshToken |-> IF payload.refresh_token # NoToken
                            THEN payload.refresh_token ELSE refreshToken,
           idToken |-> payload.id_token,
           claims |-> payload.claims,
           expiresAt |-> t + ExpiresInOr(payload) * 1000]]

\* persist(): the blob written is the session held at the call
persist(W) == [W EXCEPT !.storage = [kind |-> "state", session |-> W.session]]

logout_KeepCaches(W) == persist([W EXCEPT !.session = NullSession])

logout(W) ==
  persist([W EXCEPT !.session = NullSession,
                    !.cachedSubscription = NoSub,
                    !.cachedVpcId = NoVpc])

emitSessionExpired(W, reason) ==
  [W EXCEPT !.emitted = Append(@, [reason |-> reason, to |-> W.listeners])]

\* performTokenRefresh() up to its first await: the operation it starts
performTokenRefresh(W) ==
  IF ~W.session.present \/ W.session.tokens.refreshToken = NoToken
  THEN [W EXCEPT !.ops = Append(@, [state |-> "resolved", refreshToken |-> NoToken,
                                     primary |-> NoToken, fallback |-> NoToken,
                                     result |-> NoTokens])]
  ELSE LET rt == W.session.tokens.refreshToken IN
       [W EXCEPT !.ops = Append(@, [state |-> "primary", refreshToken |-> rt,
                                    primary |-> rt, fallback |-> NoToken,
                                    result |-> NoTokens])]

lockedRefresh_IgnoringLock(W, p) ==
  LET W1 == performTokenRefresh([W EXCEPT !.lockCalls[p] = @ + 1])
      id == Len(W1.ops)
      W2 == [W1 EXCEPT !.refreshLock =
               IF W1.ops[id].state = "resolved" THEN NoOp ELSE id]
  IN SetTop(W2, p, [Top(W2, p) EXCEPT !.pc = "lock", !.op = id])

\* lockedRefresh(): the caller's top frame now awaits the pending operation
lockedRefresh(W, p) ==
  LET W0 == [W EXCEPT !.lockCalls[p] = @ + 1] IN
  IF W0.refreshLock # NoOp
  THEN SetTop(W0, p, [Top(W0, p) EXCEPT !.pc = "lock", !.op = W0.refreshLock])
  ELSE LET W1 == performTokenRefresh(W0)
           id == Len(W1.ops)
           W2 == [W1 EXCEPT !.refreshLock =
                    IF W1.ops[id].state = "resolved" THEN NoOp ELSE id]
       IN SetTop(W2, p, [Top(W2, p) EXCEPT !.pc = "lock", !.op = id])

\* ------------------------------------------------------------- continuations
\* Each operator runs one task from a resumption point to its next await and
\* gives the state it leaves.  Frames above the bottom one are the nested
\* ensureValidSession() calls of getSubscription / getVpcId.
RECURSIVE Return(_, _, _)
RECURSIVE ResumeNested(_, _, _)
RECURSIVE EnrichDone(_, _)
RECURSIVE enrichUserTier(_, _)
RECURSIVE ensureValidSessionWithStatus(_, _, _, _)
RECURSIVE startLogin(_, _)

Val(sess, outcome) ==
  [session |-> sess, outcome |-> outcome, retry |-> FALSE, token |-> NoToken,
   dropped |-> NoResult.dropped]

\* The bottom frame returned: the caller has its result.
Complete(W, p, f, val) ==
  IF p = InitTask
  THEN [W EXCEPT !.authInitPromise = "done", !.lockCalls[p] = 0]
  ELSE [W EXCEPT !.lockCalls[p] = 0, !.last =
          [task |-> p, op |-> f.fn, forced |-> f.force, outcome |-> val.outcome,
           session |-> val.session, retry |-> val.retry, token |-> val.token,
           refreshed |-> f.refreshed, locks |-> W.lockCalls[p],
           dropped |-> val.dropped]]

Return(W, p, val) ==
  LET f == Top(W, p)
      W1 == Pop(W, p)
  IN IF Len(W1.stack[p]) = 0
     THEN Complete(W1, p, f, val)
     ELSE ResumeNested(W1, p, val.session)

\* getSubscription / getVpcId after `await this.ensureValidSession()`
\* and the platform's login() after `await ensureAuthInit()`
ResumeNested(W, p, sess) ==
  LET f == Top(W, p) IN
  IF f.fn = "login" /\ f.pc = "run"
  THEN startLogin(W, p)
  ELSE IF f.fn = "vpc"
  THEN SetTop(W, p, [f EXCEPT !.pc = "regions"])
  ELSE IF ~sess.present \/ ~sess.hasUser
       THEN EnrichDone(W, p)
       ELSE SetTop(W, p, [f EXCEPT !.pc = "subscription"])

\* enrichUserTier's update of the session with the subscription's tier
applyTier(W, tier) ==
  IF W.session.present THEN [W EXCEPT !.session.tier = tier] ELSE W

\* enrichUserTier() up to getSubscription()'s first await
enrichUserTier(W, p) ==
  IF ~W.session.present
  THEN EnrichDone(W, p)
  ELSE IF W.cachedSubscription # NoSub
       THEN EnrichDone(applyTier(W, W.cachedSubscription), p)
       ELSE ensureValidSessionWithStatus(
              SetTop(W, p, [Top(W, p) EXCEPT !.pc = "nested"]), p, FALSE, "sub")

\* What follows `await this.enrichUserTier()` in its callers
EnrichDone(W, p) ==
  LET f == Top(W, p)
      W1 == persist(W)
  IN CASE f.fn = "ensure" -> Return(W1, p, Val(W1.session, "refreshed"))
       [] f.fn = "login" -> Return(W1, p, Val(W1.session, "logged_in"))
       [] f.fn = "api" ->
            Return(W1, p, [Val(W1.session, "refreshed") EXCEPT
                             !.retry = TRUE, !.token = Bearer(f.refreshed)])
       [] OTHER ->
            IF W1.session.present /\ W1.session.hasUser
            THEN Return(W1, p, Val(W1.session, "restored"))
            ELSE Return([W1 EXCEPT !.session = NullSession], p,
                        Val(NullSession, "restore_failed"))

ensureValidSessionWithStatus(W, p, forceRefresh, via) ==
  LET tokens == W.session.tokens
      W1 == Push(W, p, NewFrame("ensure", via, forceRefresh, tokens))
  IN IF ~W.session.present
     THEN Return(W1, p, Val(NullSession, "not_attempted"))
     ELSE IF ~forceRefresh /\ ~shouldRefresh(tokens, W.now)
     THEN Return(W1, p, Val(W.session, "not_attempted"))
     ELSE IF tokens.refreshToken = NoToken
     THEN Return(W1, p, Val(W.session, "missing_refresh_token"))
     ELSE lockedRefresh(W1, p)

\* ensureValidSession(): the session of ensureValidSessionWithStatus(false)
ensureValidSession(res) == res.session

\* resolveJwtToken() without an explicit token, from what ensureValidSession()
\* gave it: it throws without a session, else hands out idToken ?? accessToken
resolveJwtToken(res) ==
  IF ~ensureValidSession(res).present
  THEN [threw |-> TRUE, token |-> NoToken]
  ELSE [threw |-> FALSE, token |-> Bearer(ensureValidSession(res).tokens)]

\* `this.session = { provider: this.session.provider, tokens: refreshed, user }`
\* followed by `this.cachedSubscription = null`
installRefreshed(W, refreshed) ==
  [W EXCEPT !.session = [present |-> TRUE, tokens |-> refreshed,
                         hasUser |-> TRUE, tier |-> "FREE"],
            !.cachedSubscription = NoSub]

\* handleApiError's catch: `this.session = { ...this.session, tokens: refreshed }`
keepTokensOnly(W, refreshed) ==
  [W EXCEPT !.session = [present |-> TRUE, tokens |-> refreshed,
                         hasUser |-> W.session.hasUser, tier |-> W.session.tier]]

\* After fetchUserInfo(refreshed) settled; ok = it returned a user.  Reading
\* this.session.provider of a session that is gone throws like a failed fetch.
afterUserInfo(W, p, ok) ==
  LET f == Top(W, p) IN
  IF ok /\ W.session.present
  THEN enrichUserTier(installRefreshed(W, f.refreshed), p)
  ELSE IF f.fn = "ensure"
       THEN Return(W, p, Val(W.session, "failed"))
       ELSE LET W1 == persist(keepTokensOnly(W, f.refreshed)) IN
            Return(W1, p, [Val(W1.session, "refreshed") EXCEPT
                             !.retry = TRUE, !.token = Bearer(f.refreshed)])

\* fetchUserInfo(tokens): claims of the JWT when usable, else GET userinfo
fetchUserInfo(W, p, refreshed) ==
  LET W1 == SetTop(W, p, [Top(W, p) EXCEPT !.refreshed = refreshed]) IN
  IF refreshed.claims
  THEN afterUserInfo(W1, p, TRUE)
  ELSE SetTop(W1, p, [Top(W1, p) EXCEPT !.pc = "userinfo"])

apiRefreshFailed_KeepSession(W, p) ==
  LET W1 == emitSessionExpired(W, "Session expired. Refresh failed.") IN
  Return(W1, p, Val(W1.session, "refresh_failed"))

\* After `await this.lockedRefresh()` in handleApiError: no tokens = logout
apiRefreshFailed(W, p) ==
  LET W1 == emitSessionExpired(logout(W), "Session expired. Refresh failed.") IN
  Return(W1, p, Val(W1.session, "refresh_failed"))

\* The settled promise is garbage once its last awaiter has read it.
Forgotten == [state |-> "resolved", refreshToken |-> NoToken, primary |-> NoToken,
              fallback |-> NoToken, result |-> NoTokens]

forget(W, p, id) ==
  IF \E q \in Tasks \ {p} :
       /\ W.stack[q] # <<>>
       /\ Top(W, q).pc = "lock"
       /\ Top(W, q).op = id
  THEN W
  ELSE [W EXCEPT !.ops[id] = Forgotten]

\* After `await this.lockedRefresh()` in both callers
afterLock(W0, p) ==
  LET f == Top(W0, p)
      refreshed == W0.ops[f.op].result
      W == forget(W0, p, f.op)
  IN IF refreshed = NoTokens
     THEN IF f.fn = "ensure"
          THEN Return(W, p, Val(W.session, "failed"))
          ELSE apiRefreshFailed(W, p)
     ELSE fetchUserInfo(W, p, refreshed)

\* ------------------------------------------------------------- entry points
handleApiError(W, p, is401) ==
  LET W1 == Push(W, p, NewFrame("api", "api", FALSE, W.session.tokens)) IN
  IF ~is401
  THEN Return(W1, p, Val(W1.session, "not_401"))
  ELSE IF ~W1.session.present \/ W1.session.tokens.refreshToken = NoToken
  THEN LET W2 == emitSessionExpired(logout(W1), "Session expired. No refresh token.")
       IN Return(W2, p, Val(W2.session, "no_refresh_token"))
  ELSE lockedRefresh(W1, p)

\* logout() as an API call; the result notes what it found to clear
logoutCall(W, p) ==
  LET W1 == logout(Push(W, p, NewFrame("logout", "logout", FALSE, NoTokens))) IN
  Return(W1, p, [Val(W1.session, "logged_out") EXCEPT
                   !.dropped = [session |-> W.session.present,
                                subscription |-> W.cachedSubscription # NoSub,
                                vpcId |-> W.cachedVpcId # NoVpc]])

\* initialize() up to `await preferencesGet(AUTH_STATE_KEY)`
initialize(W) ==
  [W EXCEPT !.stack[InitTask] =
              <<[NewFrame("init", "init", FALSE, NoTokens) EXCEPT !.pc = "load"]>>,
            !.loads = @ + 1]

ensureAuthInit_Uncached(W, p) ==
  Push([initialize(W) EXCEPT !.authInitPromise = "pending"], p,
       [NewFrame("authinit", "authinit", FALSE, NoTokens) EXCEPT !.pc = "initwait"])

\* ensureAuthInit(): the first caller starts initialize(), all await its promise
ensureAuthInit(W, p) ==
  LET W1 == IF W.authInitPromise = "unset"
            THEN [initialize(W) EXCEPT !.authInitPromise = "pending"]
            ELSE W
  IN Push(W1, p, [NewFrame("authinit", "authinit", FALSE, NoTokens)
                    EXCEPT !.pc = "initwait"])

\* initialize() after preferencesGet returned
afterLoad(W) ==
  CASE W.storage.kind = "none" -> Return(W, InitTask, Val(NullSession, "no_state"))
    [] W.storage.kind = "corrupt" ->
         Return([W EXCEPT !.session = NullSession], InitTask,
                Val(NullSession, "restore_failed"))
    [] OTHER ->
         IF W.storage.session.present
         THEN enrichUserTier([W EXCEPT !.session = W.storage.session], InitTask)
         ELSE Return(W, InitTask, Val(NullSession, "no_session"))

getVpcId(W, p, explicitToken) ==
  LET W1 == Push(W, p, NewFrame("vpc", "vpc", FALSE, NoTokens)) IN
  IF W1.cachedVpcId # NoVpc
  THEN Return(W1, p, Val(W1.session, "vpc_cached"))
  ELSE IF explicitToken
  THEN SetTop(W1, p, [Top(W1, p) EXCEPT !.pc = "regions"])
  ELSE ensureValidSessionWithStatus(
         SetTop(W1, p, [Top(W1, p) EXCEPT !.pc = "nested"]), p, FALSE, "sub")

\* the `finally` of lockedRefresh: the operation settled, the handle is cleared
settle(W, id, tokens) ==
  [W EXCEPT !.ops[id] = [@ EXCEPT !.state = "resolved", !.result = tokens],
            !.refreshLock = NoOp]

fallbackRefreshToken_Reread(W, id) == W.session.tokens.refreshToken

\* the refresh token performTokenRefresh passes to the fallback grant
fallbackRefreshToken(W, id) == W.ops[id].refreshToken

\* performTokenRefresh after the refresh_token grant answered
afterPrimary(W, id, payload) ==
  LET got == refreshAuthTokens(W.ops[id].refreshToken, payload, W.now) IN
  IF got.ok
  THEN settle(W, id, got.tokens)
  ELSE [W EXCEPT !.ops[id].state = "fallback",
                  !.ops[id].fallback = fallbackRefreshToken(W, id)]

\* performTokenRefresh after the token-exchange grant answered
afterFallback(W, id, payload) ==
  LET got == refreshViaClientToken(W.ops[id].refreshToken, payload, W.now) IN
  settle(W, id, IF got.ok THEN got.tokens ELSE NoTokens)

\* ------------------------------------------------------------- login
\* What AuthWebView.open() settles with: a rejection (the user closed the
\* window), or a callback URL with or without `code` and `error` parameters.
CallbackUrls ==
  [opened : {TRUE}, code : BOOLEAN, error : BOOLEAN]
    \cup {[opened |-> FALSE, code |-> FALSE, error |-> FALSE]}

\* startLogin() up to `await AuthWebView.open(...)`; the verifier generated
\* for caller p is p
startLogin(W, p) ==
  SetTop([W EXCEPT !.pendingPkce = p], p, [Top(W, p) EXCEPT !.pc = "webview"])

\* the platform's login(): `await ensureAuthInit()`, then startLogin()
login(W, p) ==
  ensureAuthInit(Push(W, p, NewFrame("login", "login", FALSE, NoTokens)), p)

\* startLogin() after AuthWebView.open() settled.  Reading
\* this.pendingPkce.verifier of a cleared pendingPkce throws.
afterWebView(W, p, cb) ==
  IF ~cb.opened
  THEN Return(W, p, Val(NullSession, "login_cancelled"))
  ELSE IF ~cb.code
  THEN Return([W EXCEPT !.pendingPkce = NoPkce], p, Val(NullSession, "login_failed"))
  ELSE IF W.pendingPkce = NoPkce
  THEN Return(W, p, Val(NullSession, "login_threw"))
  ELSE SetTop([W EXCEPT !.exchanges = @ + 1], p, [Top(W, p) EXCEPT !.pc = "exchange"])

\* exchangeAuthorizationCode after the response arrived
exchangeAuthorizationCode(payload, t) ==
  IF ~payload.ok
  THEN [ok |-> FALSE, tokens |-> NoTokens]
  ELSE [ok |-> TRUE,
        tokens |->
          [accessToken |-> payload.access_token,
           refreshToken |-> payload.refresh_token,
           idToken |-> payload.id_token,
           claims |-> payload.claims,
           expiresAt |-> t + ExpiresInOr(payload) * 1000]]

\* startLogin() after fetchUserInfo(tokens) settled
afterLoginUserInfo(W, p, ok) ==
  IF ~ok
  THEN Return(W, p, Val(NullSession, "userinfo_failed"))
  ELSE enrichUserTier(
         [W EXCEPT !.session = [present |-> TRUE, tokens |-> Top(W, p).refreshed,
                                hasUser |-> TRUE, tier |-> "FREE"]], p)

\* startLogin() after the token endpoint answered the code exchange
afterExchange(W, p, payload) ==
  LET got == exchangeAuthorizationCode(payload, W.now) IN
  IF ~got.ok
  THEN Return(W, p, Val(NullSession, "exchange_failed"))
  ELSE LET W1 == SetTop([W EXCEPT !.pendingPkce = NoPkce], p,
                        [Top(W, p) EXCEPT !.refreshed = got.tokens])
       IN IF got.tokens.claims
          THEN afterLoginUserInfo(W1, p, TRUE)
          ELSE SetTop(W1, p, [Top(W1, p) EXCEPT !.pc = "loginuserinfo"])

\* ------------------------------------------------------------- actions
Init ==
  /\ now = 0
  /\ storage \in InitialStorage
  /\ session = NullSession
  /\ cachedSubscription = NoSub
  /\ cachedVpcId = NoVpc
  /\ refreshLock = NoOp
  /\ listeners = {}
  /\ authInitPromise = "unset"
  /\ ops = <<>>
  /\ emitted = <<>>
  /\ stack = [p \in Tasks |-> <<>>]
  /\ last = NoResult
  /\ lockCalls = [p \in Tasks |-> 0]
  /\ issued = 0
  /\ loads = 0
  /\ pendingPkce = NoPkce
  /\ exchanges = 0
  /\ cm = NoCall
  /\ chan = NoSignaling

Awaiting(p, pc) == stack[p] # <<>> /\ stack[p][Len(stack[p])].pc = pc

LockSettled(p) ==
  /\ Awaiting(p, "lock")
  /\ ops[stack[p][Len(stack[p])].op].state = "resolved"

InitSettled(p) == Awaiting(p, "initwait") /\ authInitPromise = "done"

\* a continuation is runnable: it runs before the next macrotask
MicrotaskReady == \E p \in Tasks : LockSettled(p) \/ InitSettled(p)

\* Callers are interchangeable: a call is made by the first idle one.
FirstIdle(p) == stack[p] = <<>> /\ \A q \in Callers : q < p => stack[q] # <<>>

CanCall(p) == ~MicrotaskReady /\ FirstIdle(p)

Quiet == UNCHANGED <<now, listeners, issued, cm, chan>>

\* The calls made are unbounded; the refresh operations and the notifications
\* they may start are not.
Called == Len(ops') <= MaxOps /\ Len(emitted') <= MaxEmitted /\ Quiet

CallEnsureValidSessionWithStatus(p, forceRefresh) ==
  /\ CanCall(p)
  /\ Commit(ensureValidSessionWithStatus(World, p, forceRefresh, "status"))
  /\ Called

CallHandleApiError(p, is401) ==
  /\ CanCall(p)
  /\ Commit(handleApiError(World, p, is401))
  /\ Called

CallLogout(p) ==
  /\ CanCall(p)
  /\ Commit(logoutCall(World, p))
  /\ Called

CallEnsureAuthInit(p) ==
  /\ CanCall(p)
  /\ Commit(ensureAuthInit(World, p))
  /\ Called

CallGetVpcId(p, explicitToken) ==
  /\ CanCall(p)
  /\ Commit(getVpcId(World, p, explicitToken))
  /\ Called

ResumeAfterLock(p) ==
  /\ LockSettled(p)
  /\ Commit(afterLock(World, p))
  /\ Quiet

ResumeAfterInit(p) ==
  /\ InitSettled(p)
  /\ Commit(Return(World, p, Val(session, "initialized")))
  /\ Quiet

PreferencesLoaded ==
  /\ ~MicrotaskReady
  /\ Awaiting(InitTask, "load")
  /\ Commit(afterLoad(World))
  /\ Quiet

TokenResponses ==
  (IF issued < MaxIssued THEN GoodResponses(issued + 1) ELSE {})
    \cup {HttpErrorResponse, EmptyTokenResponse}

Granted(payload) ==
  issued' = IF payload.ok /\ payload.access_token # NoToken THEN issued + 1 ELSE issued

PrimaryResponse(id, payload) ==
  /\ ~MicrotaskReady
  /\ ops[id].state = "primary"
  /\ Commit(afterPrimary(World, id, payload))
  /\ Granted(payload)
  /\ UNCHANGED <<now, listeners, cm, chan>>

FallbackResponse(id, payload) ==
  /\ ~MicrotaskReady
  /\ ops[id].state = "fallback"
  /\ Commit(afterFallback(World, id, payload))
  /\ Granted(payload)
  /\ UNCHANGED <<now, listeners, cm, chan>>

UserinfoResponse(p, ok) ==
  /\ ~MicrotaskReady
  /\ Awaiting(p, "userinfo")
  /\ Commit(afterUserInfo(World, p, ok))
  /\ Quiet

\* fetchDynamicRegionsWeb then fetchSubscriptionWeb answered; "fail" = it threw
SubscriptionResponse(p, tier) ==
  /\ ~MicrotaskReady
  /\ Awaiting(p, "subscription")
  /\ Commit(IF tier = "fail"
            THEN EnrichDone(World, p)
            ELSE EnrichDone(applyTier([World EXCEPT !.cachedSubscription = tier],
                                      tier), p))
  /\ Quiet

\* getVpcId after fetchDynamicRegionsWeb answered
RegionsResponse(p, vpcId) ==
  /\ ~MicrotaskReady
  /\ Awaiting(p, "regions")
  /\ LET W1 == IF vpcId # NoVpc THEN [World EXCEPT !.cachedVpcId = vpcId] ELSE World
     IN Commit(Return(W1, p, Val(W1.session, "vpc")))
  /\ Quiet

OnSessionExpired(l) ==
  /\ ~MicrotaskReady
  /\ l \notin listeners
  /\ listeners' = listeners \cup {l}
  /\ last' = NoResult
  /\ UNCHANGED <<now, storage, session, cachedSubscription, cachedVpcId, refreshLock,
                 authInitPromise, ops, emitted, stack, lockCalls, issued, loads,
                 pendingPkce, exchanges, cm, chan>>

Unsubscribe(l) ==
  /\ ~MicrotaskReady
  /\ l \in listeners
  /\ listeners' = listeners \ {l}
  /\ last' = NoResult
  /\ UNCHANGED <<now, storage, session, cachedSubscription, cachedVpcId, refreshLock,
                 authInitPromise, ops, emitted, stack, lockCalls, issued, loads,
                 pendingPkce, exchanges, cm, chan>>

Tick ==
  /\ ~MicrotaskReady
  /\ now < MaxTicks * TickMs
  /\ now' = now + TickMs
  /\ last' = NoResult
  /\ UNCHANGED <<storage, session, cachedSubscription, cachedVpcId, refreshLock,
                 listeners, authInitPromise, ops, emitted, stack, lockCalls, issued,
                 loads, pendingPkce, exchanges, cm, chan>>

CallLogin(p) ==
  /\ CanCall(p)
  /\ Commit(login(World, p))
  /\ Called

WebViewCallback(p, cb) ==
  /\ ~MicrotaskReady
  /\ Awaiting(p, "webview")
  /\ cb.code => exchanges < MaxExchanges
  /\ Commit(afterWebView(World, p, cb))
  /\ Quiet

ExchangeResponse(p, payload) ==
  /\ ~MicrotaskReady
  /\ Awaiting(p, "exchange")
  /\ Commit(afterExchange(World, p, payload))
  /\ Granted(payload)
  /\ UNCHANGED <<now, listeners, cm, chan>>

LoginUserinfoResponse(p, ok) ==
  /\ ~MicrotaskReady
  /\ Awaiting(p, "loginuserinfo")
  /\ Commit(afterLoginUserInfo(World, p, ok))
  /\ Quiet

AuthStep ==
  \/ \E p \in Callers, f \in BOOLEAN : CallEnsureValidSessionWithStatus(p, f)
  \/ \E p \in Callers, is401 \in BOOLEAN : CallHandleApiError(p, is401)
  \/ \E p \in Callers : CallLogout(p)
  \/ \E p \in Callers : CallEnsureAuthInit(p)
  \/ \E p \in Tasks : ResumeAfterLock(p)
  \/ \E p \in Callers : ResumeAfterInit(p)
  \/ PreferencesLoaded
  \/ \E id \in 1..Len(ops), r \in TokenResponses : PrimaryResponse(id, r)
  \/ \E id \in 1..Len(ops), r \in TokenResponses : FallbackResponse(id, r)
  \/ \E p \in Tasks, ok \in BOOLEAN : UserinfoResponse(p, ok)
  \/ \E p \in Tasks, t \in SubscriptionTiers \cup {"fail"} : SubscriptionResponse(p, t)
  \/ Tick

ListenerStep ==
  \/ \E l \in Listeners : OnSessionExpired(l)
  \/ \E l \in Listeners : Unsubscribe(l)

VpcStep ==
  \/ \E p \in Callers, e \in BOOLEAN : CallGetVpcId(p, e)
  \/ \E p \in Callers, v \in {NoVpc, "NP-AMS-08"} : RegionsResponse(p, v)

\* the token authority and its callers
Next == AuthStep

Spec == Init /\ [][Next]_vars

\* ... with subscribers to the session-expired notification
NextNotify == AuthStep \/ ListenerStep

SpecNotify == Init /\ [][NextNotify]_vars

\* ... with callers of getVpcId
NextVpc == AuthStep \/ VpcStep

SpecVpc == Init /\ [][NextVpc]_vars

\* login() calls, the initialization they wait for and the requests both make
NextLogin ==
  \/ \E p \in Callers : CallLogin(p)
  \/ \E p \in Callers, cb \in CallbackUrls : WebViewCallback(p, cb)
  \/ \E p \in Callers, r \in TokenResponses : ExchangeResponse(p, r)
  \/ \E p \in Callers, ok \in BOOLEAN : LoginUserinfoResponse(p, ok)
  \/ \E p \in Tasks : ResumeAfterLock(p)
  \/ \E p \in Callers : ResumeAfterInit(p)
  \/ PreferencesLoaded
  \/ \E id \in 1..Len(ops), r \in TokenResponses : PrimaryResponse(id, r)
  \/ \E id \in 1..Len(ops), r \in TokenResponses : FallbackResponse(id, r)
  \/ \E p \in Tasks, ok \in BOOLEAN : UserinfoResponse(p, ok)
  \/ \E p \in Tasks, t \in SubscriptionTiers \cup {"fail"} : SubscriptionResponse(p, t)

SpecLogin == Init /\ [][NextLogin]_vars

\* ------------------------------------------------------------- CloudMatch
\* Strings are sequences of characters; the empty sequence is also the
\* absent (null, undefined) string, which the code treats alike.
Rtsps == <<"r", "t", "s", "p", "s", ":", "/", "/">>
Rtsp == <<"r", "t", "s", "p", ":", "/", "/">>
Wss == <<"w", "s", "s", ":", "/", "/">>
Https == <<"h", "t", "t", "p", "s", ":", "/", "/">>
Nvst == <<"/", "n", "v", "s", "t", "/">>
Port443 == <<":", "4", "4", "3">>

startsWith(s, prefix) ==
  Len(s) >= Len(prefix) /\ SubSeq(s, 1, Len(prefix)) = prefix

slice(s, n) == SubSeq(s, n + 1, Len(s))

includes(s, ch) == \E i \in 1..Len(s) : s[i] = ch

\* s.split(ch)[0]: what precedes the first ch
splitFirst(s, ch) ==
  IF includes(s, ch)
  THEN SubSeq(s, 1, (CHOOSE i \in 1..Len(s) :
                       s[i] = ch /\ \A j \in 1..(i - 1) : s[j] # ch) - 1)
  ELSE s

\* connections.find(pred): the first descriptor satisfying pred; 0 = none
find(connections, pred(_)) ==
  IF \E i \in 1..Len(connections) : pred(connections[i])
  THEN CHOOSE i \in 1..Len(connections) :
         pred(connections[i]) /\ \A j \in 1..(i - 1) : ~pred(connections[j])
  ELSE 0

\* An ip field is a string or an array of strings (or absent).
NoIp == [array |-> FALSE, items |-> <<>>]
IpString(str) == [array |-> FALSE, items |-> <<str>>]
IpArray(strs) == [array |-> TRUE, items |-> strs]

\* `ip` as a condition: a non-empty string, or any array
truthy(ip) == ip.array \/ (ip.items # <<>> /\ ip.items[1] # <<>>)

\* Array.isArray(ip) ? ip[0] : ip
firstIp(ip) == IF ip.items = <<>> THEN <<>> ELSE ip.items[1]

\* ip.length: of the string, or of the array
ipLength(ip) == IF ip.array THEN Len(ip.items) ELSE Len(firstIp(ip))

extractHostFromUrl(url) ==
  LET hostAfter(prefix) ==
        LET host == splitFirst(splitFirst(slice(url, Len(prefix)), ":"), "/")
        IN IF Len(host) > 0 /\ host[1] # "." THEN host ELSE <<>>
  IN CASE startsWith(url, Rtsps) -> hostAfter(Rtsps)
       [] startsWith(url, Rtsp) -> hostAfter(Rtsp)
       [] startsWith(url, Wss) -> hostAfter(Wss)
       [] startsWith(url, Https) -> hostAfter(Https)
       [] OTHER -> <<>>

\* variant: the control-info IP preferred to the host of the resource path
streamingServerIp_ControlFirst(response) ==
  LET connections == response.connectionInfo
      sig == find(connections, LAMBDA c : c.usage = 14)
      directIp == IF sig = 0 THEN <<>> ELSE firstIp(connections[sig].ip)
      host == IF sig = 0 \/ connections[sig].resourcePath = <<>>
              THEN <<>>
              ELSE extractHostFromUrl(connections[sig].resourcePath)
      controlIp == response.sessionControlInfo
  IN IF Len(directIp) > 0 THEN directIp
     ELSE IF truthy(controlIp) /\ ipLength(controlIp) > 0 THEN firstIp(controlIp)
     ELSE host

streamingServerIp(response) ==
  LET connections == response.connectionInfo
      sig == find(connections, LAMBDA c : c.usage = 14)
      directIp == IF sig = 0 THEN <<>> ELSE firstIp(connections[sig].ip)
      host == IF sig = 0 \/ connections[sig].resourcePath = <<>>
              THEN <<>>
              ELSE extractHostFromUrl(connections[sig].resourcePath)
      controlIp == response.sessionControlInfo
  IN IF Len(directIp) > 0 THEN directIp
     ELSE IF Len(host) > 0 THEN host
     ELSE IF truthy(controlIp) /\ ipLength(controlIp) > 0 THEN firstIp(controlIp)
     ELSE <<>>

\* variant: every URL composed from the server IP and port 443
buildSignalingUrl_AlwaysComposed(resourcePath, serverIp) ==
  IF startsWith(resourcePath, <<"/">>)
  THEN [signalingUrl |-> Wss \o serverIp \o Port443 \o resourcePath,
        signalingHost |-> <<>>]
  ELSE [signalingUrl |-> Wss \o serverIp \o Port443 \o Nvst, signalingHost |-> <<>>]

buildSignalingUrl(resourcePath, serverIp) ==
  LET host == extractHostFromUrl(resourcePath) IN
  IF (startsWith(resourcePath, Rtsps) \/ startsWith(resourcePath, Rtsp)) /\ host # <<>>
  THEN [signalingUrl |-> Wss \o host \o Nvst, signalingHost |-> host]
  ELSE IF startsWith(resourcePath, Wss)
  THEN [signalingUrl |-> resourcePath, signalingHost |-> <<>>]
  ELSE IF startsWith(resourcePath, <<"/">>)
  THEN [signalingUrl |-> Wss \o serverIp \o Port443 \o resourcePath,
        signalingHost |-> <<>>]
  ELSE [signalingUrl |-> Wss \o serverIp \o Port443 \o Nvst, signalingHost |-> <<>>]

resolveMediaConnectionInfo(connections) ==
  LET media == find(connections, LAMBDA c : c.usage = 6) IN
  IF media # 0 /\ truthy(connections[media].ip)
  THEN firstIp(connections[media].ip)
  ELSE <<>>

\* resolveSignaling: [threw, serverIp, signalingServer, signalingUrl, ...]
resolveSignaling(response) ==
  LET connections == response.connectionInfo
      tagged == find(connections, LAMBDA c : c.usage = 14 /\ truthy(c.ip))
      signalingConnection ==
        IF tagged # 0 THEN tagged ELSE find(connections, LAMBDA c : truthy(c.ip))
      serverIp == streamingServerIp(response)
      resourcePath ==
        IF signalingConnection = 0 \/ connections[signalingConnection].resourcePath = <<>>
        THEN Nvst
        ELSE connections[signalingConnection].resourcePath
      built == buildSignalingUrl(resourcePath, serverIp)
      effectiveHost == IF built.signalingHost # <<>> THEN built.signalingHost ELSE serverIp
  IN IF serverIp = <<>>
     THEN [threw |-> TRUE, serverIp |-> <<>>, signalingServer |-> <<>>,
           signalingUrl |-> <<>>, mediaConnectionInfo |-> <<>>]
     ELSE [threw |-> FALSE, serverIp |-> serverIp,
           signalingServer |-> IF includes(effectiveHost, ":")
                               THEN effectiveHost ELSE effectiveHost \o Port443,
           signalingUrl |-> built.signalingUrl,
           mediaConnectionInfo |-> resolveMediaConnectionInfo(connections)]

\* ---- what the CloudMatch server may answer
NoStatusCode == -1
NoSessions == -1
MaxClaimAttempts == 15
ClaimDelayMs == 2000

PathRtsps == Rtsps \o <<"a", ":", "4", "/", "s">>
PathWss == Wss \o <<"b", "/", "x">>
PathRelative == <<"/", "p">>
PathDotHost == Https \o <<".", "c">>
PathRtspDotHost == Rtsp \o <<".", "d", "/", "s">>

Descriptor(usage, ip, resourcePath) ==
  [usage |-> usage, ip |-> ip, resourcePath |-> resourcePath]

SignalingDescriptors ==
  { Descriptor(14, ip, path) :
      ip \in {NoIp, IpString(<<"1">>), IpArray(<< <<"2">> >>), IpArray(<<>>)},
      path \in {<<>>, PathRtsps, PathWss, PathRelative, PathDotHost, PathRtspDotHost} }

OtherDescriptors ==
  { Descriptor(6, IpString(<<"7">>), <<>>), Descriptor(2, IpString(<<"5">>), PathWss) }

ConnectionInfos ==
  {<<>>} \cup { <<d>> : d \in SignalingDescriptors }
         \cup { <<o, d>> : o \in OtherDescriptors, d \in SignalingDescriptors }
         \cup { <<d, o>> : d \in SignalingDescriptors, o \in OtherDescriptors }

ControlIps == {NoIp, IpString(<<"9">>)}

\* session.status 6 is queued, 2 and 3 are ready and running
\* every request status with every session status, and every descriptor layout
\* on a ready session
SessionData ==
  [statusCode : {NoStatusCode, 0, 1, 2}, status : {1, 2, 3, 6},
   connectionInfo : {<<>>, <<Descriptor(14, IpString(<<"1">>), PathRtsps)>>},
   sessionControlInfo : ControlIps, sessions : {NoSessions}]
  \cup
  [statusCode : {0}, status : {2},
   connectionInfo : ConnectionInfos, sessionControlInfo : ControlIps,
   sessions : {NoSessions}]

ListData ==
  [statusCode : {0}, status : {1}, connectionInfo : {<<>>},
   sessionControlInfo : {NoIp}, sessions : {NoSessions, 0, 2}]

NoData ==
  [statusCode |-> NoStatusCode, status |-> 0, connectionInfo |-> <<>>,
   sessionControlInfo |-> NoIp, sessions |-> NoSessions]

\* fetch() rejected; a non-2xx response; a 2xx response whose body is no JSON
FailedResponses ==
  { [net |-> "rejected", ok |-> FALSE, status |-> 0, decodable |-> FALSE, data |-> NoData],
    [net |-> "ok", ok |-> FALSE, status |-> 401, decodable |-> TRUE, data |-> NoData],
    [net |-> "ok", ok |-> FALSE, status |-> 503, decodable |-> FALSE, data |-> NoData],
    [net |-> "ok", ok |-> TRUE, status |-> 200, decodable |-> FALSE, data |-> NoData] }

Decoded(data) ==
  [net |-> "ok", ok |-> TRUE, status |-> 200, decodable |-> TRUE, data |-> data]

SessionResponses == FailedResponses \cup { Decoded(d) : d \in SessionData }
ListResponses == FailedResponses \cup { Decoded(d) : d \in ListData }

\* ---- results
NoInfo ==
  [status |-> 0, serverIp |-> <<>>, signalingServer |-> <<>>, signalingUrl |-> <<>>,
   mediaConnectionInfo |-> <<>>]

Returned(info, sessions) ==
  [kind |-> "returned", error |-> "none", status |-> 0, body |-> NoData,
   info |-> info, sessions |-> sessions]

Threw(error) ==
  [kind |-> "threw", error |-> error, status |-> 0, body |-> NoData,
   info |-> NoInfo, sessions |-> 0]

\* SessionError.fromResponse(status, text): the error carries both
SessionErrorFromResponse(status, body) ==
  [Threw("SessionError") EXCEPT !.status = status, !.body = body]

\* ---- the calls, from the response of their one request
\* variant: a creation that resolves signaling at once
createSessionWeb_Resolving(r) ==
  IF r.net = "rejected" THEN Threw("TypeError")
  ELSE IF ~r.ok THEN SessionErrorFromResponse(r.status, r.data)
  ELSE IF ~r.decodable THEN Threw("SyntaxError")
  ELSE IF r.data.statusCode # 0 THEN SessionErrorFromResponse(0, r.data)
  ELSE LET resolved == resolveSignaling(r.data) IN
       Returned([NoInfo EXCEPT !.status = r.data.status,
                               !.serverIp = streamingServerIp(r.data),
                               !.signalingServer = resolved.signalingServer,
                               !.signalingUrl = resolved.signalingUrl], 0)

createSessionWeb(r) ==
  IF r.net = "rejected" THEN Threw("TypeError")
  ELSE IF ~r.ok THEN SessionErrorFromResponse(r.status, r.data)
  ELSE IF ~r.decodable THEN Threw("SyntaxError")
  ELSE IF r.data.statusCode # 0 THEN SessionErrorFromResponse(0, r.data)
  ELSE Returned([NoInfo EXCEPT !.status = r.data.status,
                               !.serverIp = streamingServerIp(r.data)], 0)

\* variant: a poll that never resolves signaling
pollSessionWeb_Unresolved(r, serverIp) ==
  IF r.net = "rejected" THEN Threw("TypeError")
  ELSE IF ~r.ok THEN SessionErrorFromResponse(r.status, r.data)
  ELSE IF ~r.decodable THEN Threw("SyntaxError")
  ELSE IF r.data.statusCode >= 2 THEN SessionErrorFromResponse(0, r.data)
  ELSE Returned([NoInfo EXCEPT !.status = r.data.status, !.serverIp = serverIp], 0)

pollSessionWeb(r, serverIp) ==
  IF r.net = "rejected" THEN Threw("TypeError")
  ELSE IF ~r.ok THEN SessionErrorFromResponse(r.status, r.data)
  ELSE IF ~r.decodable THEN Threw("SyntaxError")
  ELSE IF r.data.statusCode # 0 /\ r.data.statusCode # NoStatusCode
          /\ r.data.statusCode >= 2
  THEN SessionErrorFromResponse(0, r.data)
  ELSE LET sessionStatus == r.data.status
           resolved == resolveSignaling(r.data)
           signaling == (sessionStatus = 2 \/ sessionStatus = 3) /\ ~resolved.threw
       IN Returned(
            [status |-> sessionStatus,
             serverIp |-> IF signaling THEN resolved.serverIp ELSE serverIp,
             signalingServer |-> IF signaling THEN resolved.signalingServer ELSE <<>>,
             signalingUrl |-> IF signaling THEN resolved.signalingUrl ELSE <<>>,
             mediaConnectionInfo |->
               IF signaling THEN resolved.mediaConnectionInfo ELSE <<>>], 0)

stopSessionWeb(r) ==
  IF r.net = "rejected" THEN Threw("TypeError") ELSE Returned(NoInfo, 0)

getActiveSessionsWeb(r) ==
  IF r.net = "rejected" THEN Threw("TypeError")
  ELSE IF ~r.ok THEN Returned(NoInfo, 0)
  ELSE IF ~r.decodable THEN Threw("SyntaxError")
  ELSE Returned(NoInfo, IF r.data.sessions = NoSessions THEN 0 ELSE r.data.sessions)

\* variant: an attempt that retries when signaling does not resolve
claimAttempt_Retrying(r) ==
  IF r.net = "rejected" THEN [next |-> "done", result |-> Threw("TypeError")]
  ELSE IF ~r.ok THEN [next |-> "continue", result |-> [kind |-> "none"]]
  ELSE IF ~r.decodable THEN [next |-> "done", result |-> Threw("SyntaxError")]
  ELSE IF r.data.status = 2 \/ r.data.status = 3
  THEN LET signaling == resolveSignaling(r.data) IN
       IF signaling.threw
       THEN [next |-> "continue", result |-> [kind |-> "none"]]
       ELSE [next |-> "done",
             result |-> Returned(
               [status |-> r.data.status, serverIp |-> signaling.serverIp,
                signalingServer |-> signaling.signalingServer,
                signalingUrl |-> signaling.signalingUrl,
                mediaConnectionInfo |-> signaling.mediaConnectionInfo], 0)]
  ELSE IF r.data.status # 6
  THEN [next |-> "break", result |-> [kind |-> "none"]]
  ELSE [next |-> "continue", result |-> [kind |-> "none"]]

\* variant: an attempt that goes on whatever the status
claimAttempt_NoBreak(r) ==
  IF r.net = "rejected" THEN [next |-> "done", result |-> Threw("TypeError")]
  ELSE IF ~r.ok THEN [next |-> "continue", result |-> [kind |-> "none"]]
  ELSE IF ~r.decodable THEN [next |-> "done", result |-> Threw("SyntaxError")]
  ELSE IF r.data.status = 2 \/ r.data.status = 3
  THEN LET signaling == resolveSignaling(r.data) IN
       IF signaling.threw
       THEN [next |-> "done", result |-> Threw("Error: no signaling host")]
       ELSE [next |-> "done",
             result |-> Returned(
               [status |-> r.data.status, serverIp |-> signaling.serverIp,
                signalingServer |-> signaling.signalingServer,
                signalingUrl |-> signaling.signalingUrl,
                mediaConnectionInfo |-> signaling.mediaConnectionInfo], 0)]
  ELSE [next |-> "continue", result |-> [kind |-> "none"]]

\* one attempt of claimSessionWeb: what the loop does with the response
claimAttempt(r) ==
  IF r.net = "rejected" THEN [next |-> "done", result |-> Threw("TypeError")]
  ELSE IF ~r.ok THEN [next |-> "continue", result |-> [kind |-> "none"]]
  ELSE IF ~r.decodable THEN [next |-> "done", result |-> Threw("SyntaxError")]
  ELSE IF r.data.status = 2 \/ r.data.status = 3
  THEN LET signaling == resolveSignaling(r.data) IN
       IF signaling.threw
       THEN [next |-> "done", result |-> Threw("Error: no signaling host")]
       ELSE [next |-> "done",
             result |-> Returned(
               [status |-> r.data.status, serverIp |-> signaling.serverIp,
                signalingServer |-> signaling.signalingServer,
                signalingUrl |-> signaling.signalingUrl,
                mediaConnectionInfo |-> signaling.mediaConnectionInfo], 0)]
  ELSE IF r.data.status # 6
  THEN [next |-> "break", result |-> [kind |-> "none"]]
  ELSE [next |-> "continue", result |-> [kind |-> "none"]]

\* variant: a loop that allows one attempt more
claimSessionWeb_OneMore(call, r) ==
  LET step == claimAttempt(r)
      notReady == Threw("Error: session did not become ready")
  IN CASE step.next = "done" -> [call EXCEPT !.pc = "done", !.result = step.result]
       [] step.next = "break" -> [call EXCEPT !.pc = "done", !.result = notReady]
       [] OTHER ->
            IF call.attempt + 1 <= MaxClaimAttempts
            THEN [call EXCEPT !.attempt = @ + 1, !.pc = "wait"]
            ELSE [call EXCEPT !.attempt = @ + 1, !.pc = "done", !.result = notReady]

\* the loop of claimSessionWeb after an attempt's response
claimSessionWeb(call, r) ==
  LET step == claimAttempt(r)
      notReady == Threw("Error: session did not become ready")
  IN CASE step.next = "done" -> [call EXCEPT !.pc = "done", !.result = step.result]
       [] step.next = "break" -> [call EXCEPT !.pc = "done", !.result = notReady]
       [] OTHER ->
            IF call.attempt + 1 < MaxClaimAttempts
            THEN [call EXCEPT !.attempt = @ + 1, !.pc = "wait"]
            ELSE [call EXCEPT !.attempt = @ + 1, !.pc = "done", !.result = notReady]

\* ---- the platform's entry points
\* A call made with no token asks resolveJwtToken() for one; here that is a
\* call made while no session is held, which throws.
StartCall(fn, hasToken, serverIp) ==
  IF hasToken
  THEN [NoCall EXCEPT !.fn = fn, !.pc = "fetch", !.serverIp = serverIp, !.requests = 1]
  ELSE [NoCall EXCEPT !.fn = fn, !.pc = "done", !.serverIp = serverIp,
                      !.result =
                        IF resolveJwtToken([session |-> session]).threw
                        THEN Threw("Error: no authenticated session")
                        ELSE Returned(NoInfo, 0)]

AuthIdle ==
  UNCHANGED <<now, storage, session, cachedSubscription, cachedVpcId, refreshLock,
              listeners, authInitPromise, ops, emitted, stack, last, lockCalls,
              issued, loads, pendingPkce, exchanges, chan>>

CanCallCloudMatch(hasToken) ==
  /\ cm.pc \in {"idle", "done"}
  /\ hasToken \/ ~session.present

ServerIps == {<<>>, <<"8">>}

CallCreateSession(hasToken) ==
  /\ CanCallCloudMatch(hasToken)
  /\ cm' = StartCall("createSession", hasToken, <<>>)
  /\ AuthIdle

CallPollSession(hasToken, serverIp) ==
  /\ CanCallCloudMatch(hasToken)
  /\ cm' = StartCall("pollSession", hasToken, serverIp)
  /\ AuthIdle

CallStopSession(hasToken) ==
  /\ CanCallCloudMatch(hasToken)
  /\ cm' = StartCall("stopSession", hasToken, <<>>)
  /\ AuthIdle

CallGetActiveSessions(hasToken) ==
  /\ CanCallCloudMatch(hasToken)
  /\ cm' = StartCall("getActiveSessions", hasToken, <<>>)
  /\ AuthIdle

CallClaimSession(hasToken) ==
  /\ CanCallCloudMatch(hasToken)
  /\ cm' = StartCall("claimSession", hasToken, <<>>)
  /\ AuthIdle

Fetching(fn) == cm.fn = fn /\ cm.pc = "fetch"

CreateSessionResponse(r) ==
  /\ Fetching("createSession")
  /\ cm' = [cm EXCEPT !.pc = "done", !.response = r, !.result = createSessionWeb(r)]
  /\ AuthIdle

PollSessionResponse(r) ==
  /\ Fetching("pollSession")
  /\ cm' = [cm EXCEPT !.pc = "done", !.response = r,
                      !.result = pollSessionWeb(r, cm.serverIp)]
  /\ AuthIdle

StopSessionResponse(r) ==
  /\ Fetching("stopSession")
  /\ cm' = [cm EXCEPT !.pc = "done", !.response = r, !.result = stopSessionWeb(r)]
  /\ AuthIdle

ActiveSessionsResponse(r) ==
  /\ Fetching("getActiveSessions")
  /\ cm' = [cm EXCEPT !.pc = "done", !.response = r,
                      !.result = getActiveSessionsWeb(r)]
  /\ AuthIdle

ClaimSessionResponse(r) ==
  /\ Fetching("claimSession")
  /\ cm' = claimSessionWeb([cm EXCEPT !.response = r], r)
  /\ AuthIdle

\* the 2 s timer of claimSessionWeb fired: the next attempt's GET goes out
ClaimSessionTimer ==
  /\ cm.fn = "claimSession"
  /\ cm.pc = "wait"
  /\ cm' = [cm EXCEPT !.pc = "fetch", !.waits = @ + 1, !.waited = @ + ClaimDelayMs,
                      !.requests = @ + 1, !.response = NoCall.response]
  /\ AuthIdle

NextCloudMatch ==
  \/ \E t \in BOOLEAN : CallCreateSession(t)
  \/ \E t \in BOOLEAN, ip \in ServerIps : CallPollSession(t, ip)
  \/ \E t \in BOOLEAN : CallStopSession(t)
  \/ \E t \in BOOLEAN : CallGetActiveSessions(t)
  \/ \E r \in SessionResponses : CreateSessionResponse(r)
  \/ \E r \in SessionResponses : PollSessionResponse(r)
  \/ \E r \in FailedResponses \cup {Decoded(NoData)} : StopSessionResponse(r)
  \/ \E r \in ListResponses : ActiveSessionsResponse(r)

SpecCloudMatch == Init /\ [][NextCloudMatch]_vars

NextClaimSession ==
  \/ \E t \in BOOLEAN : CallClaimSession(t)
  \/ \E r \in SessionResponses : ClaimSessionResponse(r)
  \/ ClaimSessionTimer

\* every request is answered and every timer fires
SpecClaimSession ==
  /\ Init
  /\ [][NextClaimSession]_vars
  /\ WF_vars(Fetching("claimSession")
               /\ \E r \in SessionResponses : ClaimSessionResponse(r))
  /\ WF_vars(ClaimSessionTimer)

\* ------------------------------------------------------------- signaling
\* The platform holds one BrowserSignalingClient at a time (signalingClient,
\* signalingClientKey); connectSignaling calls connect() once on every client
\* it constructs, so a client creates at most one socket.  A client is kept in
\* chan.clients after the platform dropped it, because the handlers of its
\* socket still reference it.

MaxClients == 2
MaxSent == 3
MaxAckCounter == 3
MaxArrivals == 3

PeerId == 2
RemotePeerId == 1
HeartbeatMs == 5000

SignalingKeys == {"s1|h|", "s1|h|wss://u"}
InboundAckIds == {7, 8}
NoAckId == 0
NoPeerInfo == 0
CloseReasons == {"", "bye"}

\* ---- frames

NoFrameFields == [ackid |-> NoAckId, ack |-> NoAckId, hb |-> 0, id |-> NoPeerInfo,
                  from |-> 0, to |-> 0, msg |-> "none"]

PeerInfoFrame(ackid, id) ==
  [NoFrameFields EXCEPT !.ackid = ackid, !.id = id, !.msg = "peer_info"]

AckFrame(ackid) == [NoFrameFields EXCEPT !.ack = ackid]

HeartbeatFrame == [NoFrameFields EXCEPT !.hb = 1]

PeerMsgFrame(from, msg, ackid) ==
  [NoFrameFields EXCEPT !.from = from, !.to = RemotePeerId, !.msg = msg, !.ackid = ackid]

\* what the server may send: a text that is not JSON, the JSON text null, or
\* a JSON object with any of the fields handleMessage looks at; msg is the
\* inner document of peer_msg: absent, not JSON, the JSON text null, an offer
\* with its SDP string, an offer without one, an ICE candidate, or another
\* JSON object
InnerPayloads == {"none", "malformed", "null", "offer", "offerNoSdp", "candidate", "bye"}

NoObject(text) == [text |-> text, ackid |-> NoAckId, peerInfoId |-> NoPeerInfo,
                   hb |-> FALSE, msg |-> "none"]

InboundFrames ==
  {NoObject("malformed"), NoObject("null")} \cup
  [text : {"object"}, ackid : {NoAckId} \cup InboundAckIds,
   peerInfoId : {NoPeerInfo, RemotePeerId, PeerId}, hb : BOOLEAN, msg : InnerPayloads]

\* what a handler did: the client after it, the events it emitted, and
\* whether it ended in an exception
Outcome(c, events) == [c |-> c, events |-> events, threw |-> FALSE]

TypeError(c) == [c |-> c, events |-> <<>>, threw |-> TRUE]

Event(type, detail) == [type |-> type, detail |-> detail]

\* ---- BrowserSignalingClient

BrowserSignalingClient(key) ==
  [key |-> key, ws |-> FALSE, readyState |-> "NONE", sockets |-> 0,
   promise |-> "none", ackCounter |-> 0, heartbeatTimer |-> 0, timers |-> 0,
   sent |-> <<>>, arrivals |-> <<>>, handled |-> 0]

nextAckId_Repeating(c) == c

nextAckId(c) == [c EXCEPT !.ackCounter = @ + 1]

sendJson(c, payload) ==
  IF ~c.ws \/ c.readyState # "OPEN" THEN c
  ELSE [c EXCEPT !.sent = Append(@, payload)]

clearHeartbeat_Unguarded(c) == [c EXCEPT !.timers = @ - 1, !.heartbeatTimer = 0]

clearHeartbeat(c) ==
  IF c.heartbeatTimer # 0
  THEN [c EXCEPT !.timers = @ - 1, !.heartbeatTimer = 0]
  ELSE c

setupHeartbeat(c) ==
  [clearHeartbeat(c) EXCEPT !.timers = @ + 1, !.heartbeatTimer = HeartbeatMs]

sendPeerInfo(c) ==
  LET c1 == nextAckId(c)
  IN sendJson(c1, PeerInfoFrame(c1.ackCounter, PeerId))

connect_Instant(c) ==
  [c EXCEPT !.ws = TRUE, !.readyState = "OPEN", !.sockets = @ + 1, !.promise = "pending"]

connect(c) ==
  IF c.ws /\ c.readyState = "OPEN" THEN [c EXCEPT !.promise = "resolved"]
  ELSE [c EXCEPT !.ws = TRUE, !.readyState = "CONNECTING", !.sockets = @ + 1,
                 !.promise = "pending"]

\* reject and resolve settle the promise of connect() once
Settle(c, how) == IF c.promise = "pending" THEN [c EXCEPT !.promise = how] ELSE c

onerror(c) == [c |-> Settle(c, "rejected"), events |-> <<Event("error", "WebSocket error")>>]

onopen_Silent(c) ==
  [c |-> Settle(setupHeartbeat(c), "resolved"), events |-> <<Event("connected", "")>>]

onopen(c) ==
  [c |-> Settle(setupHeartbeat(sendPeerInfo(c)), "resolved"),
   events |-> <<Event("connected", "")>>]

onclose(c, reason) ==
  [c |-> clearHeartbeat(c),
   events |-> <<Event("disconnected", IF reason # "" THEN reason ELSE "socket closed")>>]

handleMessage_AckingAll(c, frame) ==
  IF frame.text = "malformed"
  THEN Outcome(c, <<Event("log", "Ignoring non-JSON")>>)
  ELSE IF frame.text = "null" THEN TypeError(c)
  ELSE
    LET shouldAck == frame.ackid # NoAckId
        c1 == IF shouldAck THEN sendJson(c, AckFrame(frame.ackid)) ELSE c
    IN IF frame.hb THEN Outcome(sendJson(c1, HeartbeatFrame), <<>>)
       ELSE IF frame.msg = "none" THEN Outcome(c1, <<>>)
       ELSE IF frame.msg = "malformed"
         THEN Outcome(c1, <<Event("log", "Non-JSON peer payload")>>)
       ELSE IF frame.msg = "null" THEN TypeError(c1)
       ELSE IF frame.msg = "offer" THEN Outcome(c1, <<Event("offer", "sdp")>>)
       ELSE IF frame.msg = "candidate"
         THEN Outcome(c1, <<Event("remote-ice", "candidate")>>)
       ELSE Outcome(c1, <<>>)

handleMessage_Breaking(c, frame) ==
  IF frame.text = "malformed"
  THEN Outcome(clearHeartbeat(c), <<Event("log", "Ignoring non-JSON")>>)
  ELSE IF frame.text = "null" THEN TypeError(c)
  ELSE
    LET shouldAck == frame.ackid # NoAckId /\ frame.peerInfoId # PeerId
        c1 == IF shouldAck THEN sendJson(c, AckFrame(frame.ackid)) ELSE c
    IN IF frame.hb THEN Outcome(sendJson(c1, HeartbeatFrame), <<>>)
       ELSE IF frame.msg = "none" THEN Outcome(c1, <<>>)
       ELSE IF frame.msg = "malformed"
         THEN Outcome(c1, <<>>)
       ELSE IF frame.msg = "null" THEN TypeError(c1)
       ELSE IF frame.msg = "offer" THEN Outcome(c1, <<Event("offer", "sdp")>>)
       ELSE IF frame.msg = "candidate"
         THEN Outcome(c1, <<Event("remote-ice", "candidate")>>)
       ELSE Outcome(c1, <<>>)

\* JSON.parse of the text null gives null, and reading a field of null is a
\* TypeError; the last branch is the console.log of an unhandled peer
\* message: nothing is emitted to the listeners
handleMessage(c, frame) ==
  IF frame.text = "malformed"
  THEN Outcome(c, <<Event("log", "Ignoring non-JSON")>>)
  ELSE IF frame.text = "null" THEN TypeError(c)
  ELSE
    LET shouldAck == frame.ackid # NoAckId /\ frame.peerInfoId # PeerId
        c1 == IF shouldAck THEN sendJson(c, AckFrame(frame.ackid)) ELSE c
    IN IF frame.hb THEN Outcome(sendJson(c1, HeartbeatFrame), <<>>)
       ELSE IF frame.msg = "none" THEN Outcome(c1, <<>>)
       ELSE IF frame.msg = "malformed"
         THEN Outcome(c1, <<Event("log", "Non-JSON peer payload")>>)
       ELSE IF frame.msg = "null" THEN TypeError(c1)
       ELSE IF frame.msg = "offer" THEN Outcome(c1, <<Event("offer", "sdp")>>)
       ELSE IF frame.msg = "candidate"
         THEN Outcome(c1, <<Event("remote-ice", "candidate")>>)
       ELSE Outcome(c1, <<>>)

\* the message event of the oldest frame the socket received and has not
\* delivered yet: the handler runs to its end before the next event is taken
onmessage_Newest(c) ==
  LET outcome == handleMessage(c, c.arrivals[Len(c.arrivals)])
  IN [outcome EXCEPT !.c.handled = @ + 1]

onmessage(c) ==
  LET outcome == handleMessage(c, c.arrivals[c.handled + 1])
  IN [outcome EXCEPT !.c.handled = @ + 1]

sendAnswer(c) ==
  LET c1 == nextAckId(c)
  IN sendJson(c1, PeerMsgFrame(PeerId, "answer", c1.ackCounter))

sendIceCandidate(c) ==
  LET c1 == nextAckId(c)
  IN sendJson(c1, PeerMsgFrame(PeerId, "candidate", c1.ackCounter))

\* ws.close() moves an open or connecting socket to CLOSING
close(c) ==
  IF c.readyState \in {"CONNECTING", "OPEN"} THEN [c EXCEPT !.readyState = "CLOSING"] ELSE c

disconnect(c) ==
  LET c1 == clearHeartbeat(c)
  IN IF c1.ws THEN [close(c1) EXCEPT !.ws = FALSE] ELSE c1

\* ---- the platform's entry points

connectSignaling_AlwaysNew(ch, key) ==
  LET torn == IF ch.client # 0
              THEN [ch.clients EXCEPT ![ch.client] = disconnect(@)]
              ELSE ch.clients
  IN [ch EXCEPT !.clients = Append(torn, connect(BrowserSignalingClient(key))),
                !.client = Len(torn) + 1, !.key = key,
                !.events = <<>>,
       !.call = "connectSignaling", !.result = "pending"]

connectSignaling_NoTeardown(ch, key) ==
  IF ch.client # 0 /\ ch.key = key
  THEN [ch EXCEPT !.events = <<>>, !.call = "connectSignaling", !.result = "returned"]
  ELSE [ch EXCEPT !.clients = Append(@, connect(BrowserSignalingClient(key))),
                  !.client = Len(ch.clients) + 1, !.key = key,
                  !.events = <<>>,
       !.call = "connectSignaling", !.result = "pending"]

connectSignaling(ch, key) ==
  IF ch.client # 0 /\ ch.key = key
  THEN [ch EXCEPT !.events = <<>>, !.call = "connectSignaling", !.result = "returned"]
  ELSE
    LET torn == IF ch.client # 0
                THEN [ch.clients EXCEPT ![ch.client] = disconnect(@)]
                ELSE ch.clients
    IN [ch EXCEPT !.clients = Append(torn, connect(BrowserSignalingClient(key))),
                  !.client = Len(torn) + 1, !.key = key,
                  !.events = <<>>,
       !.call = "connectSignaling", !.result = "pending"]

disconnectSignaling(ch) ==
  [ch EXCEPT !.clients = IF ch.client # 0
                         THEN [@ EXCEPT ![ch.client] = disconnect(@)]
                         ELSE @,
             !.client = 0, !.key = "none", !.isStreaming = FALSE,
             !.events = <<>>, !.call = "disconnectSignaling", !.result = "returned"]

\* sendAnswer and sendIceCandidate of the platform
Send(ch, call, send(_)) ==
  IF ch.client = 0
  THEN [ch EXCEPT !.events = <<>>, !.call = call, !.result = "threw"]
  ELSE [ch EXCEPT !.clients[ch.client] = send(@), !.events = <<>>,
                  !.call = call, !.result = "returned"]

\* ---- actions

OnlySignaling ==
  UNCHANGED <<now, storage, session, cachedSubscription, cachedVpcId, refreshLock,
              listeners, authInitPromise, ops, emitted, stack, last, lockCalls,
              issued, loads, pendingPkce, exchanges, cm>>

Clients == 1 .. Len(chan.clients)

RECURSIVE AckIdsTaken(_)
AckIdsTaken(clients) ==
  IF clients = <<>> THEN 0
  ELSE clients[1].ackCounter + AckIdsTaken(Tail(clients))

RECURSIVE FramesSent(_)
FramesSent(clients) ==
  IF clients = <<>> THEN 0
  ELSE Len(clients[1].sent) + FramesSent(Tail(clients))

\* a handler of client i's socket ran
Handled(i, outcome, readyState) ==
  chan' = [chan EXCEPT !.clients[i] = [outcome.c EXCEPT !.readyState = readyState],
                       !.events = outcome.events, !.call = "none", !.result = "none"]

CallConnectSignaling(key) ==
  /\ (chan.client # 0 /\ chan.key = key) \/ Len(chan.clients) < MaxClients
  /\ chan' = connectSignaling(chan, key)
  /\ OnlySignaling

CallDisconnectSignaling ==
  /\ chan' = disconnectSignaling(chan)
  /\ OnlySignaling

CallSendAnswer ==
  /\ chan.client # 0 =>
       /\ AckIdsTaken(chan.clients) < MaxAckCounter
       /\ FramesSent(chan.clients) < MaxSent
  /\ chan' = Send(chan, "sendAnswer", sendAnswer)
  /\ OnlySignaling

CallSendIceCandidate ==
  /\ chan.client # 0 =>
       /\ AckIdsTaken(chan.clients) < MaxAckCounter
       /\ FramesSent(chan.clients) < MaxSent
  /\ chan' = Send(chan, "sendIceCandidate", sendIceCandidate)
  /\ OnlySignaling

\* the connection is established: readyState becomes OPEN and the open event
\* fires in the same task; connectSignaling resumes behind connect()
SocketOpens(i) ==
  /\ chan.clients[i].readyState = "CONNECTING"
  /\ LET outcome == onopen([chan.clients[i] EXCEPT !.readyState = "OPEN"])
     IN chan' = [chan EXCEPT !.clients[i] = outcome.c, !.events = outcome.events,
                             !.call = "none", !.result = "none",
                             !.isStreaming = @ \/ chan.clients[i].promise = "pending"]
  /\ OnlySignaling

\* the connection fails before it opened, also after close() was called on
\* it: the error event and the close event fire in one task
SocketFails(i, reason) ==
  /\ \/ chan.clients[i].readyState = "CONNECTING"
     \/ chan.clients[i].readyState = "CLOSING" /\ chan.clients[i].promise # "resolved"
  /\ LET failed == onerror(chan.clients[i])
         closed == onclose(failed.c, reason)
     IN Handled(i, [c |-> closed.c, events |-> failed.events \o closed.events], "CLOSED")
  /\ OnlySignaling

\* an open socket is closed by the server or lost, or a closing handshake
\* this side started completes
SocketCloses(i, reason) ==
  /\ \/ chan.clients[i].readyState = "OPEN"
     \/ chan.clients[i].readyState = "CLOSING" /\ chan.clients[i].promise = "resolved"
  /\ Handled(i, onclose(chan.clients[i], reason), "CLOSED")
  /\ OnlySignaling

\* message events fire only while the socket is OPEN
MessageArrives(i, frame) ==
  /\ chan.clients[i].readyState = "OPEN"
  /\ FramesSent(chan.clients) + 1 < MaxSent
  /\ LET outcome == handleMessage(chan.clients[i], frame)
     IN chan' = [chan EXCEPT !.clients[i] = outcome.c, !.events = outcome.events,
                             !.call = "none",
                             !.result = IF outcome.threw THEN "threw" ELSE "none"]
  /\ OnlySignaling

\* one of client i's interval timers fires
HeartbeatTick(i) ==
  /\ chan.clients[i].timers > 0
  /\ FramesSent(chan.clients) < MaxSent
  /\ Handled(i, [c |-> sendJson(chan.clients[i], HeartbeatFrame), events |-> <<>>],
             chan.clients[i].readyState)
  /\ OnlySignaling

\* the signaling entry points read nothing of the session or of what is
\* stored: the channel is followed from a start without a stored session
InitSignaling == Init /\ storage.kind = "none"

\* the life of the channel: calls of the platform and what happens to sockets
NextSignaling ==
  \/ \E key \in SignalingKeys : CallConnectSignaling(key)
  \/ CallDisconnectSignaling
  \/ CallSendAnswer
  \/ CallSendIceCandidate
  \/ \E i \in Clients : SocketOpens(i)
  \/ \E i \in Clients, reason \in CloseReasons : SocketFails(i, reason)
  \/ \E i \in Clients, reason \in CloseReasons : SocketCloses(i, reason)
  \/ \E i \in Clients : HeartbeatTick(i)

SpecSignaling == InitSignaling /\ [][NextSignaling]_vars

\* the socket of client i receives a frame; its message event is queued
FrameReceived(i, frame) ==
  /\ chan.clients[i].readyState = "OPEN"
  /\ Len(chan.clients[i].arrivals) < MaxArrivals
  /\ chan' = [chan EXCEPT !.clients[i].arrivals = Append(@, frame),
                          !.events = <<>>, !.call = "none", !.result = "none"]
  /\ OnlySignaling

\* the next queued message event of client i's socket is dispatched
MessageEvent(i) ==
  /\ chan.clients[i].readyState = "OPEN"
  /\ chan.clients[i].handled < Len(chan.clients[i].arrivals)
  /\ FramesSent(chan.clients) < MaxSent
  /\ LET outcome == onmessage(chan.clients[i])
     IN chan' = [chan EXCEPT !.clients[i] = outcome.c, !.events = outcome.events,
                             !.call = "none",
                             !.result = IF outcome.threw THEN "threw" ELSE "none"]
  /\ OnlySignaling

\* frames that ask for an acknowledgment, and the text that is not JSON
QueuedFrames ==
  {NoObject("malformed")} \cup
  {frame \in InboundFrames :
     /\ frame.text = "object" /\ frame.ackid # NoAckId
     /\ frame.peerInfoId = RemotePeerId /\ ~frame.hb}

\* frames queue up on the socket of one connection and are dispatched
NextInbox ==
  \/ CallConnectSignaling("s1|h|")
  \/ \E i \in Clients : SocketOpens(i)
  \/ \E i \in Clients : SocketCloses(i, "")
  \/ \E i \in Clients, frame \in QueuedFrames : FrameReceived(i, frame)
  \/ \E i \in Clients : MessageEvent(i)

SpecInbox == InitSignaling /\ [][NextInbox]_vars

\* the frames of the server, on the connections of one session
NextFrames ==
  \/ CallConnectSignaling("s1|h|")
  \/ CallDisconnectSignaling
  \/ \E i \in Clients : SocketOpens(i)
  \/ \E i \in Clients : SocketCloses(i, "")
  \/ \E i \in Clients, frame \in InboundFrames : MessageArrives(i, frame)
  \/ \E i \in Clients : HeartbeatTick(i)

SpecFrames == InitSignaling /\ [][NextFrames]_vars

\* ------------------------------------------------------------- properties
InFlight == {id \in 1..Len(ops) : ops[id].state # "resolved"}

\* a caller's ensureValidSessionWithStatus call that went for a refresh
Refreshing(p) ==
  /\ stack[p] # <<>>
  /\ stack[p][1].fn = "ensure"
  /\ stack[p][1].op # NoOp

\* C1: callers of ensureValidSession / ensureValidSessionWithStatus whose calls
\* overlap and need a refresh of the same token set are served by one
\* performTokenRefresh and get the same resulting token set.
C1_OneRefreshForConcurrentCallers ==
  \A p \in Callers, q \in Callers :
    (Refreshing(p) /\ Refreshing(q) /\ stack[p][1].tokens = stack[q][1].tokens)
      => /\ stack[p][1].op = stack[q][1].op
         /\ (stack[p][1].refreshed # NoTokens /\ stack[q][1].refreshed # NoTokens
               => stack[p][1].refreshed = stack[q][1].refreshed)

\* C2: at most one refresh operation is in flight; refreshLock names it exactly
\* while it is pending (so it is cleared on completion, success or failure), and
\* every call waiting for a pending refresh waits for that one.
C2_SingleRefreshInFlight ==
  /\ Cardinality(InFlight) <= 1
  /\ InFlight = (IF refreshLock = NoOp THEN {} ELSE {refreshLock})
  /\ \A p \in Tasks :
       Awaiting(p, "lock") /\ ~LockSettled(p)
         => stack[p][Len(stack[p])].op = refreshLock

\* two calls share the second refresh, started after the first one completed
C2_Witness ==
  /\ Len(ops) = 2
  /\ refreshLock = 2
  /\ \E p \in Callers, q \in Callers :
       /\ p # q
       /\ Awaiting(p, "lock") /\ Awaiting(q, "lock")
       /\ stack[p][1].fn = "ensure" /\ stack[q][1].fn = "api"

\* C3: a session that ensureValidSession returns, and so a bearer token that
\* resolveJwtToken hands out, expires later than the time it is returned at;
\* otherwise the caller gets no session (resolveJwtToken throws).
C3_NeverHandsOutExpired ==
  (last.op = "ensure" /\ ~last.forced /\ ~resolveJwtToken(last).threw)
    => ensureValidSession(last).tokens.expiresAt > now

\* C4: a handleApiError call on a 401 that finds no refresh token, or whose
\* locked refresh gives no tokens, returns retry=false and no token, leaves the
\* session cleared in memory and in the store, and has emitted one
\* session-expired notification with a reason to the current subscribers.
C4_ForcedLogout ==
  [][\A p \in Callers :
       LET noRefreshToken ==
             /\ stack[p] = <<>>
             /\ last'.outcome # "not_401"
             /\ ~session.present \/ session.tokens.refreshToken = NoToken
           refreshFailed ==
             /\ LockSettled(p)
             /\ Len(stack[p]) = 1
             /\ stack[p][1].fn = "api"
             /\ ops[stack[p][1].op].result = NoTokens
             /\ stack'[p] # stack[p]
       IN (last'.task = p /\ last'.op = "api" /\ (noRefreshToken \/ refreshFailed))
            => /\ ~last'.retry
               /\ last'.token = NoToken
               /\ session' = NullSession
               /\ storage' = [kind |-> "state", session |-> NullSession]
               /\ Len(emitted') = Len(emitted) + 1
               /\ emitted'[Len(emitted')].reason # ""
               /\ emitted'[Len(emitted')].to = listeners
               /\ last'.outcome \in {"no_refresh_token", "refresh_failed"}]_vars

\* the refresh of a present session failed and a subscriber was told
C4_Witness ==
  /\ last.op = "api"
  /\ last.outcome = "refresh_failed"
  /\ last.locks = 1
  /\ emitted # <<>>
  /\ emitted[Len(emitted)].to # {}
  /\ ~session.present

\* C5: a handleApiError call whose refresh gave a token set made exactly one
\* locked refresh, returns retry=true with the new bearer token, and leaves the
\* session present and holding that token set.
C5_RetryWithRefreshedSession ==
  (last.op = "api" /\ last.refreshed # NoTokens)
    => /\ last.retry
       /\ last.token = Bearer(last.refreshed)
       /\ last.locks = 1
       /\ session.present
       /\ session.tokens = last.refreshed

\* C6: the fallback grant is sent only after the primary grant failed, with
\* the refresh token the primary grant used; when both fail the session and
\* the store are as before, and an ensureValidSessionWithStatus call waiting
\* for that refresh returns outcome failed with the session it finds.
C6_FallbackAfterPrimary ==
  /\ [](\A id \in 1..Len(ops) :
          /\ ops[id].state = "primary" => ops[id].fallback = NoToken
          /\ ops[id].state = "fallback" =>
               ops[id].primary # NoToken /\ ops[id].fallback = ops[id].primary
          /\ ops[id].fallback # NoToken => ops[id].fallback = ops[id].primary)
  /\ [][/\ \A id \in 1..Len(ops) :
             (ops[id].state = "fallback" /\ ops'[id].state = "resolved"
                /\ ops'[id].result = NoTokens)
               => session' = session /\ storage' = storage
        /\ \A p \in Callers :
             (LockSettled(p) /\ stack[p][1].fn = "ensure" /\ Len(stack[p]) = 1
                /\ ops[stack[p][1].op].result = NoTokens /\ stack'[p] # stack[p])
               => /\ last'.task = p
                  /\ last'.outcome = "failed"
                  /\ last'.session = session
                  /\ session' = session
                  /\ storage' = storage]_vars

\* both grants failed for a call that keeps its stale session
C6_Witness ==
  /\ last.op = "ensure"
  /\ last.outcome = "failed"
  /\ last.locks = 1
  /\ last.refreshed = NoTokens
  /\ session.present
  /\ last.session = session

\* C7: an ensureValidSessionWithStatus call whose refresh gave a token set ends
\* with outcome refreshed, the session holding those tokens, and that session in
\* the credential store.
C7_RefreshedSessionInstalled ==
  (last.op = "ensure" /\ last.refreshed # NoTokens)
    => /\ last.outcome = "refreshed"
       /\ session.present
       /\ session.tokens = last.refreshed
       /\ storage = [kind |-> "state", session |-> session]

C9_InitializedOnce ==
  /\ loads <= 1
  /\ loads = (IF authInitPromise = "unset" THEN 0 ELSE 1)
  /\ stack[InitTask] # <<>> => authInitPromise = "pending"
  /\ \A p \in Callers : Awaiting(p, "initwait") => authInitPromise # "unset"

\* two requests wait for the same initialization
C9_Witness ==
  /\ loads = 1
  /\ authInitPromise = "pending"
  /\ \A p \in Callers : Awaiting(p, "initwait")

DecodedResponse ==
  cm.response.net = "ok" /\ cm.response.ok /\ cm.response.decodable

ReadyStatus(data) == data.status = 2 \/ data.status = 3

CallDone(fn) == cm.fn = fn /\ cm.pc = "done" /\ cm.requests >= 1

NoTokenError == Threw("Error: no authenticated session")

\* C13: a pollSession call sends exactly one GET and never waits on a timer.
\* On a decoded 2xx answer it throws exactly when the request status code is a
\* terminal failure code (2 or more), and what it throws is a SessionError;
\* otherwise it returns, with a non-empty signalingUrl and signalingServer when
\* the session status is 2 or 3 and a signaling host can be resolved, and with
\* both empty when the status is 2 or 3 but no host resolves or the status is
\* any other.
C13_PollSession ==
  /\ cm.fn = "pollSession" => cm.requests <= 1 /\ cm.waits = 0 /\ cm.waited = 0
  /\ cm.fn = "pollSession" /\ cm.pc = "done" =>
        cm.requests = 1 \/ cm.result = NoTokenError
  /\ CallDone("pollSession") /\ DecodedResponse =>
        LET data == cm.response.data
            res == cm.result
        IN /\ res.kind = "threw" <=> data.statusCode >= 2
           /\ res.kind = "threw" => res.error = "SessionError"
           /\ res.kind = "returned" =>
                IF ReadyStatus(data) /\ streamingServerIp(data) # <<>>
                THEN res.info.signalingUrl # <<>> /\ res.info.signalingServer # <<>>
                ELSE res.info.signalingUrl = <<>> /\ res.info.signalingServer = <<>>

C13_Witness ==
  /\ CallDone("pollSession") /\ DecodedResponse
  /\ ReadyStatus(cm.response.data)
  /\ cm.response.data.statusCode = 0
  /\ cm.result.kind = "returned"
  /\ cm.result.info.signalingUrl # <<>>

NotReadyError == Threw("Error: session did not become ready")

Non2xxResponse == cm.response.net = "ok" /\ ~cm.response.ok

ClaimCounts ==
  cm.fn = "claimSession" /\ cm.requests >= 1 =>
    /\ cm.requests <= 15
    /\ cm.waits = cm.requests - 1
    /\ cm.waited = cm.waits * 2000
    /\ cm.pc = "wait" => cm.requests < 15
    /\ cm.pc = "done" /\ Non2xxResponse =>
         cm.requests = 15 /\ cm.result = NotReadyError
    /\ cm.pc = "done" /\ ~(DecodedResponse /\ ReadyStatus(cm.response.data)) =>
         cm.result.kind = "threw"

\* C14: a claimSession call sends at most 15 GETs and has waited 2 s before
\* each of them but the first, so 14 waits at most and none after the 15th
\* attempt; a non-2xx answer ends the call only when it was the 15th attempt,
\* and then with the "did not become ready" error; a call whose last answer
\* was not a ready/running session ends by raising; and every claimSession
\* call ends.
C14_ClaimSessionBounded ==
  /\ []ClaimCounts
  /\ (cm.fn = "claimSession" /\ cm.pc # "done")
        ~> (cm.fn = "claimSession" /\ cm.pc = "done")

C14_Witness ==
  /\ CallDone("claimSession") /\ Non2xxResponse
  /\ cm.requests = 15 /\ cm.waits = 14 /\ cm.waited = 28000
  /\ cm.result = NotReadyError

ReadyAnswer(r) == r.net = "ok" /\ r.ok /\ r.decodable /\ ReadyStatus(r.data)

NewCall == cm'.requests <= 1 /\ cm'.waits = 0 /\ cm'.attempt = 0

\* C15: the claimSession attempt whose answer shows status 2 or 3 ends the
\* call in that step, with no further GET and no further wait; when a
\* signaling host resolves the call returns a SessionInfo with non-empty
\* serverIp, signalingServer and signalingUrl, and when none resolves the call
\* raises the resolution error. Nothing follows an ended call but a new call.
C15_ClaimReturnsWhenReady ==
  [][ /\ Fetching("claimSession") /\ cm'.fn = "claimSession"
         /\ ReadyAnswer(cm'.response) =>
           /\ cm'.pc = "done"
           /\ cm'.requests = cm.requests /\ cm'.waits = cm.waits
           /\ IF streamingServerIp(cm'.response.data) # <<>>
              THEN /\ cm'.result.kind = "returned"
                   /\ cm'.result.info.status = cm'.response.data.status
                   /\ cm'.result.info.serverIp # <<>>
                   /\ cm'.result.info.signalingServer # <<>>
                   /\ cm'.result.info.signalingUrl # <<>>
              ELSE cm'.result = Threw("Error: no signaling host")
      /\ cm.fn = "claimSession" /\ cm.pc = "done" /\ cm' # cm => NewCall
    ]_vars

C15_Witness ==
  /\ CallDone("claimSession") /\ ReadyAnswer(cm.response)
  /\ cm.requests = 3 /\ cm.waits = 2
  /\ cm.result.kind = "returned"
  /\ cm.result.info.signalingUrl # <<>>

QueuedAnswer(r) == r.net = "ok" /\ r.ok /\ r.decodable /\ r.data.status = 6

TerminalAnswer(r) ==
  r.net = "ok" /\ r.ok /\ r.decodable /\ r.data.status \notin {2, 3, 6}

Non2xxAnswer(r) == r.net = "ok" /\ ~r.ok

\* C16: the claimSession attempt whose answer shows a status other than 2, 3
\* and 6 ends the call in that step with the "did not become ready" error, with
\* no further GET and no further wait; the call goes on to a wait, and from
\* there to another attempt, only after a queued (6) or a non-2xx answer.
C16_ClaimStopsOnTerminalStatus ==
  [][ /\ Fetching("claimSession") /\ cm'.fn = "claimSession"
         /\ TerminalAnswer(cm'.response) =>
           /\ cm'.pc = "done" /\ cm'.result = NotReadyError
           /\ cm'.requests = cm.requests /\ cm'.waits = cm.waits
      /\ Fetching("claimSession") /\ cm'.pc = "wait" =>
           QueuedAnswer(cm'.response) \/ Non2xxAnswer(cm'.response)
      /\ cm.fn = "claimSession" /\ cm'.waits > cm.waits =>
           /\ cm.pc = "wait"
           /\ QueuedAnswer(cm.response) \/ Non2xxAnswer(cm.response)
    ]_vars

C16_Witness ==
  /\ CallDone("claimSession") /\ TerminalAnswer(cm.response)
  /\ cm.requests = 2 /\ cm.waits = 1
  /\ cm.result = NotReadyError

\* C17: a createSession call answered with a non-2xx status raises a
\* SessionError carrying that HTTP status and the body; answered with a decoded
\* body whose request status code is not 0 it raises a SessionError carrying
\* the body (and in it the status code); answered with request status code 0 it
\* returns a SessionInfo with the session's status and with signalingServer and
\* signalingUrl empty, whatever the session status and the descriptors.
C17_CreateSession ==
  CallDone("createSession") =>
    LET r == cm.response
        res == cm.result
    IN /\ Non2xxAnswer(r) =>
            /\ res.kind = "threw" /\ res.error = "SessionError"
            /\ res.status = r.status /\ res.body = r.data
       /\ DecodedResponse /\ r.data.statusCode # 0 =>
            /\ res.kind = "threw" /\ res.error = "SessionError"
            /\ res.body = r.data /\ res.body.statusCode = r.data.statusCode
       /\ DecodedResponse /\ r.data.statusCode = 0 =>
            /\ res.kind = "returned"
            /\ res.info.status = r.data.status
            /\ res.info.signalingServer = <<>> /\ res.info.signalingUrl = <<>>

C17_Witness ==
  /\ CallDone("createSession") /\ ReadyAnswer(cm.response)
  /\ cm.response.data.statusCode = 0
  /\ streamingServerIp(cm.response.data) # <<>>
  /\ cm.result.kind = "returned"
  /\ cm.result.info.serverIp # <<>>
  /\ cm.result.info.signalingUrl = <<>>

\* C18: a stopSession call whose DELETE was sent ends without raising,
\* whatever became of the request.
C18_StopSessionNeverRaises ==
  CallDone("stopSession") => cm.result.kind = "returned"

\* C19: a getActiveSessions call ends without raising, and with the empty
\* list when no token was usable, the request failed, the answer was non-2xx
\* or its body could not be decoded.
C19_ActiveSessionsNeverRaise ==
  cm.fn = "getActiveSessions" /\ cm.pc = "done" =>
    /\ cm.result.kind = "returned"
    /\ cm.requests = 0 \/ ~DecodedResponse => cm.result.sessions = 0

\* ---- signaling host resolution, as the specification words it
KnownSchemes == {Rtsps, Rtsp, Wss, Https}

\* what precedes the first ':' or '/' of s
CutAtSeparator(s) ==
  LET at == {i \in 1..Len(s) : s[i] \in {":", "/"}}
  IN IF at = {} THEN s
     ELSE SubSeq(s, 1, (CHOOSE i \in at : \A j \in at : i <= j) - 1)

SchemeHost(path) ==
  LET schemes == {p \in KnownSchemes :
                    Len(path) >= Len(p) /\ SubSeq(path, 1, Len(p)) = p}
  IN IF schemes = {} THEN <<>>
     ELSE LET p == CHOOSE q \in schemes : TRUE
          IN CutAtSeparator(SubSeq(path, Len(p) + 1, Len(path)))

\* a derived host that begins with '.' is no host
UsableSchemeHost(path) ==
  LET host == SchemeHost(path)
  IN IF host # <<>> /\ host[1] = "." THEN <<>> ELSE host

PreferredHost(data, derive(_)) ==
  LET tagged == {i \in 1..Len(data.connectionInfo) : data.connectionInfo[i].usage = 14}
      sig == data.connectionInfo[CHOOSE i \in tagged : \A j \in tagged : i <= j]
      direct == IF tagged = {} \/ sig.ip.items = <<>> THEN <<>> ELSE sig.ip.items[1]
      derived == IF tagged = {} THEN <<>> ELSE derive(sig.resourcePath)
      control == IF data.sessionControlInfo.items = <<>> THEN <<>>
                 ELSE data.sessionControlInfo.items[1]
  IN IF direct # <<>> THEN direct
     ELSE IF derived # <<>> THEN derived
     ELSE control

ResolvesTo(host) ==
  IF host # <<>>
  THEN cm.result.kind = "returned" /\ cm.result.info.serverIp = host
  ELSE cm.result = Threw("Error: no signaling host")

\* C20: for a claimSession call ended by a ready answer, the resolved host is
\* the direct IP of the first usage-14 descriptor if there is one; otherwise
\* the host of that descriptor's resource path (what follows a known scheme
\* prefix, up to the next ':' or '/'); otherwise the control-info IP; and the
\* call raises the resolution error exactly when all three are empty.
C20_HostPreferenceOrder ==
  CallDone("claimSession") /\ ReadyAnswer(cm.response) =>
    ResolvesTo(PreferredHost(cm.response.data, SchemeHost))

\* C20, amended: the same order, where the resource path yields a host only
\* if what follows the scheme prefix, up to the next ':' or '/', is non-empty
\* and does not begin with '.'.
C20_HostPreferenceOrderUsable ==
  CallDone("claimSession") /\ ReadyAnswer(cm.response) =>
    ResolvesTo(PreferredHost(cm.response.data, UsableSchemeHost))

C20_Witness ==
  /\ CallDone("claimSession") /\ ReadyAnswer(cm.response)
  /\ Len(cm.response.data.connectionInfo) = 2
  /\ cm.response.data.connectionInfo[2].usage = 14
  /\ cm.response.data.connectionInfo[2].ip = NoIp
  /\ cm.response.data.sessionControlInfo # NoIp
  /\ cm.result.kind = "returned"
  /\ cm.result.info.serverIp = <<"a">>

\* ---- login
FailingCallbacks == {cb \in CallbackUrls : cb.opened /\ (~cb.code \/ cb.error)}

\* C11: when the callback URL the login window returns has no `code`
\* parameter, or has an `error` parameter, the login call fails, pendingPkce is
\* cleared, no code exchange is sent, and the session held and stored is left
\* as it was.
C11_LoginFailsWithoutCodeOrOnError ==
  [][\A p \in Callers, cb \in FailingCallbacks :
       WebViewCallback(p, cb) =>
         /\ last'.task = p /\ last'.op = "login" /\ last'.outcome = "login_failed"
         /\ pendingPkce' = NoPkce
         /\ exchanges' = exchanges
         /\ session' = session /\ storage' = storage]_vars

\* ---- token lifetime
\* granted with expires_in absent, so with the default lifetime
DefaultLifetime(tokens) == tokens.expiresAt >= DefaultExpiresIn * 1000

\* C12: when a refresh replaces the session's token set, and both sets were
\* granted with the same expires_in (here: none, counting as 86400 s), the
\* token set installed never has an earlier expiresAt than the one replaced.
C12_RefreshNeverShortensExpiry ==
  [][ session.present /\ session'.present
        /\ session'.tokens # session.tokens
        /\ DefaultLifetime(session.tokens) /\ DefaultLifetime(session'.tokens)
      => session'.tokens.expiresAt >= session.tokens.expiresAt ]_vars

\* ---- signaling URL, as the specification words it
HasScheme(path, schemes) ==
  \E p \in schemes : Len(path) >= Len(p) /\ SubSeq(path, 1, Len(p)) = p

\* the URL for a resource path, rtspHost(path) telling when an rtsp(s) path
\* counts as having a host
UrlByCase(path, serverIp, rtspHost(_)) ==
  IF HasScheme(path, {Rtsps, Rtsp}) /\ rtspHost(path)
  THEN Wss \o SchemeHost(path) \o Nvst
  ELSE IF HasScheme(path, {Wss}) THEN path
  ELSE IF path # <<>> /\ path[1] = "/" THEN Wss \o serverIp \o Port443 \o path
  ELSE Wss \o serverIp \o Port443 \o Nvst

\* the answer's first usage-14 descriptor has an ip field and is the only
\* descriptor the resource path can come from
TaggedWithIp(data) ==
  LET tagged == {i \in 1..Len(data.connectionInfo) : data.connectionInfo[i].usage = 14}
  IN /\ tagged # {}
     /\ LET ip == data.connectionInfo[CHOOSE i \in tagged : \A j \in tagged : i <= j].ip
        IN ip.array \/ ip.items # <<>>

TaggedPath(data) ==
  LET tagged == {i \in 1..Len(data.connectionInfo) : data.connectionInfo[i].usage = 14}
  IN data.connectionInfo[CHOOSE i \in tagged : \A j \in tagged : i <= j].resourcePath

ClaimedWithTaggedPath ==
  /\ CallDone("claimSession") /\ ReadyAnswer(cm.response)
  /\ cm.result.kind = "returned"
  /\ TaggedWithIp(cm.response.data)

\* C21: the signalingUrl a claimSession call returns is, by the resource path
\* of the usage-14 descriptor: wss://<host>/nvst/ for an rtsps:// or rtsp://
\* path; the path itself for a wss:// path; wss://<serverIp>:443<path> for a
\* path beginning with '/'; wss://<serverIp>:443/nvst/ for anything else.
C21_SignalingUrlByCase ==
  ClaimedWithTaggedPath =>
    cm.result.info.signalingUrl =
      UrlByCase(TaggedPath(cm.response.data), cm.result.info.serverIp,
                LAMBDA path : TRUE)

\* C21, amended: the same, where an rtsps:// or rtsp:// path gives
\* wss://<host>/nvst/ only if its host is non-empty and does not begin with
\* '.', and is otherwise among the "anything else".
C21_SignalingUrlByCaseUsable ==
  ClaimedWithTaggedPath =>
    cm.result.info.signalingUrl =
      UrlByCase(TaggedPath(cm.response.data), cm.result.info.serverIp,
                LAMBDA path : UsableSchemeHost(path) # <<>>)

C21_Witness ==
  /\ ClaimedWithTaggedPath
  /\ TaggedPath(cm.response.data) = PathRtsps
  /\ cm.result.info.signalingUrl = Wss \o <<"a">> \o Nvst

\* ---- the signaling channel

Connected(ch) == ch.client # 0 /\ ch.clients[ch.client].readyState = "OPEN"

\* the sockets the clients created so far
RECURSIVE SocketsCreated(_)
SocketsCreated(clients) ==
  IF clients = <<>> THEN 0 ELSE clients[1].sockets + SocketsCreated(Tail(clients))

PeerInfosSent(c) == Cardinality({n \in 1 .. Len(c.sent) : c.sent[n].msg = "peer_info"})

\* C22: connectSignaling called with the session, server and URL of the
\* connected channel creates no socket and announces the peer identity no
\* further time: the clients, their sockets and what they sent stay as they are.
C22_SameKeyConnectIsNoOp ==
  [][\A key \in SignalingKeys :
       (CallConnectSignaling(key) /\ Connected(chan) /\ chan.key = key)
         => /\ SocketsCreated(chan'.clients) = SocketsCreated(chan.clients)
            /\ Len(chan'.clients) = Len(chan.clients)
            /\ chan'.client = chan.client
            /\ \A i \in Clients :
                 PeerInfosSent(chan'.clients[i]) = PeerInfosSent(chan.clients[i])]_vars

C22_Witness ==
  /\ chan.call = "connectSignaling" /\ chan.result = "returned"
  /\ Connected(chan)
  /\ SocketsCreated(chan.clients) = 1
  /\ PeerInfosSent(chan.clients[chan.client]) = 1

LiveSockets == {i \in Clients : chan.clients[i].readyState \in {"CONNECTING", "OPEN"}}

\* C23: across any sequence of connectSignaling and disconnectSignaling calls
\* at most one socket is open or connecting, and it is the socket of the
\* platform's current client: connectSignaling with another session, server or
\* URL closes the previous socket in the call that creates the new one.
C23_AtMostOneLiveSocket ==
  /\ Cardinality(LiveSockets) <= 1
  /\ \A i \in LiveSockets : i = chan.client /\ chan.clients[i].ws

C23_Witness ==
  /\ chan.call = "connectSignaling" /\ chan.result = "pending"
  /\ Len(chan.clients) = 2
  /\ chan.clients[1].key # chan.clients[2].key
  /\ chan.clients[1].sent # <<>>
  /\ chan.clients[1].readyState = "CLOSING"
  /\ chan.clients[2].readyState = "CONNECTING"

\* the state of a connection, from the socket its client created
ConnectionState(c) ==
  CASE c.readyState = "CONNECTING" -> "connecting"
    [] c.readyState = "OPEN" -> "connected"
    [] c.readyState = "CLOSING" -> "closing"
    [] OTHER -> "idle"

HappyPath ==
  {<<"idle", "connecting">>, <<"connecting", "connected">>,
   <<"connected", "closing">>, <<"closing", "idle">>}

\* a connection attempt that fails or is given up, and an open socket lost
Interrupted ==
  {<<"connecting", "idle">>, <<"connecting", "closing">>, <<"connected", "idle">>}

\* every state change of a connection in this step is one of the allowed ones;
\* a client constructed in this step was idle before
ChangesWithin(allowed) ==
  \A i \in 1 .. Len(chan'.clients) :
    LET before == IF i \in Clients THEN ConnectionState(chan.clients[i]) ELSE "idle"
        after == ConnectionState(chan'.clients[i])
    IN before # after => <<before, after>> \in allowed

\* C24: every state change of a connection is one of idle -> connecting,
\* connecting -> connected, connected -> closing, closing -> idle.
C24_StateMachine == [][ChangesWithin(HappyPath)]_vars

\* C24, amended: every state change of a connection is one of those four, or
\* one of connecting -> idle (the attempt failed), connecting -> closing
\* (disconnected before the socket opened), connected -> idle (the open
\* socket was closed by the server or lost).
C24_StateMachineInterruptible == [][ChangesWithin(HappyPath \cup Interrupted)]_vars

C24_Witness ==
  \E i \in Clients :
    /\ ConnectionState(chan.clients[i]) = "idle"
    /\ ~chan.clients[i].ws
    /\ chan.clients[i].promise = "resolved"
    /\ PeerInfosSent(chan.clients[i]) = 1

\* what a connection has sent and the timers it runs, by the state of its socket
AnnouncedAndBeating(c) ==
  /\ c.sent # <<>> => c.sent[1].msg = "peer_info" /\ c.sent[1].id = 2
  /\ PeerInfosSent(c) <= 1
  /\ IF c.readyState = "OPEN"
     THEN PeerInfosSent(c) = 1 /\ c.timers = 1 /\ c.heartbeatTimer = 5000
     ELSE c.timers = 0 /\ c.heartbeatTimer = 0

\* C25: the peer_info frame is the first frame a connection sends and the
\* only one of its kind; a connection whose socket is open has sent it and
\* runs exactly one heartbeat timer, of 5000 ms, and no other connection runs
\* one; every firing of the timer sends one heartbeat frame.
C25_AnnounceThenHeartbeat ==
  /\ [](\A i \in Clients : AnnouncedAndBeating(chan.clients[i]))
  /\ [][\A i \in Clients :
          HeartbeatTick(i) =>
            chan'.clients[i].sent = Append(chan.clients[i].sent, HeartbeatFrame)]_vars

C25_Witness ==
  /\ Connected(chan)
  /\ Len(chan.clients[chan.client].sent) = 3
  /\ chan.clients[chan.client].sent[2] = HeartbeatFrame
  /\ chan.clients[chan.client].sent[3] = HeartbeatFrame

\* the acknowledgments client i sends in this step
AcksSent(i) ==
  LET before == chan.clients[i].sent
      after == chan'.clients[i].sent
  IN [n \in 1 .. Cardinality({m \in Len(before) + 1 .. Len(after) : after[m].ack # 0}) |->
        LET m == CHOOSE m \in Len(before) + 1 .. Len(after) :
                   /\ after[m].ack # 0
                   /\ Cardinality({k \in Len(before) + 1 .. m : after[k].ack # 0}) = n
        IN after[m]]

\* C26: a received frame with an ackid whose peer id is not this client's is
\* answered by exactly one ack frame carrying that ackid; a frame with an
\* ackid and this client's peer id, and a frame without ackid, by none.
C26_AckOnlyForOtherPeers ==
  [][\A i \in Clients, frame \in InboundFrames :
       MessageArrives(i, frame) =>
         AcksSent(i) = IF frame.ackid # 0 /\ frame.peerInfoId # 2
                       THEN <<AckFrame(frame.ackid)>>
                       ELSE <<>>]_vars

C26_Witness ==
  /\ Connected(chan)
  /\ Len(chan.clients[chan.client].sent) = 3
  /\ chan.clients[chan.client].sent[2] = AckFrame(7)
  /\ chan.clients[chan.client].sent[3] = HeartbeatFrame
  /\ chan.events = <<>>

\* a frame that relays a payload to this client and is not a heartbeat
Relayed(frame) == frame.text = "object" /\ ~frame.hb /\ frame.msg # "none"

Logged(events) == \E n \in 1 .. Len(events) : events[n].type = "log"

\* C27: a relayed frame whose inner JSON document is neither an offer with an
\* SDP string nor an ICE candidate gives the subscribers a log event, and no
\* relayed frame is handled without an event being emitted.
C27_UnrecognizedPayloadIsLogged ==
  [][\A i \in Clients, frame \in InboundFrames :
       (MessageArrives(i, frame) /\ Relayed(frame))
         => /\ chan'.events # <<>>
            /\ frame.msg \in {"null", "offerNoSdp", "bye"} => Logged(chan'.events)]_vars

Malformed(frame) ==
  \/ frame.text = "malformed"
  \/ Relayed(frame) /\ frame.msg = "malformed"

\* the connection, heartbeat timer and ack counter of a client
Standing(c) ==
  [ws |-> c.ws, readyState |-> c.readyState, heartbeatTimer |-> c.heartbeatTimer,
   timers |-> c.timers, ackCounter |-> c.ackCounter]

\* C28: a frame whose text, or whose relayed payload, is not JSON is
\* reported as a log event and its handling raises nothing; connection,
\* heartbeat timer and ack counter are as before, so the next frame is handled.
C28_MalformedFramesAreLogged ==
  [][\A i \in Clients, frame \in InboundFrames :
       (MessageArrives(i, frame) /\ Malformed(frame))
         => /\ Logged(chan'.events)
            /\ chan'.result # "threw"
            /\ Standing(chan'.clients[i]) = Standing(chan.clients[i])
            /\ chan'.clients[i].readyState = "OPEN"]_vars

C28_Witness ==
  /\ Connected(chan)
  /\ chan.events = <<Event("log", "Non-JSON peer payload")>>
  /\ chan.clients[chan.client].timers = 1
  /\ chan.clients[chan.client].sent =
       <<PeerInfoFrame(1, 2), AckFrame(7)>>

\* the frames of a connection that carry an ackid have increasing ackids,
\* and its relayed frames are from this client to peer 1
AckIdsIncrease(c) ==
  /\ \A m, n \in 1 .. Len(c.sent) :
       (m < n /\ c.sent[m].ackid # 0 /\ c.sent[n].ackid # 0)
         => c.sent[m].ackid < c.sent[n].ackid
  /\ \A n \in 1 .. Len(c.sent) :
       c.sent[n].msg \in {"answer", "candidate"}
         => c.sent[n].from = 2 /\ c.sent[n].to = 1 /\ c.sent[n].ackid # 0

\* the frame the current client sends in this step, with the ackid it took
SendsEnvelope(msg) ==
  LET c == chan.clients[chan.client]
      after == chan'.clients[chan.client]
  IN /\ after.ackCounter = c.ackCounter + 1
     /\ after.sent = Append(c.sent, [NoFrameFields EXCEPT !.from = 2, !.to = 1, !.msg = msg,
                                                         !.ackid = after.ackCounter])

\* C29: sendAnswer and sendIceCandidate send their payload in the same relay
\* envelope, to peer 1 from this client, with an ackid taken by incrementing
\* the counter; the ackids of the frames a connection sent (peer-info,
\* answer, ICE) increase strictly, so no two frames share one.
C29_AckIdsStrictlyIncrease ==
  /\ [](\A i \in Clients : AckIdsIncrease(chan.clients[i]))
  /\ [][/\ (CallSendAnswer /\ Connected(chan)) => SendsEnvelope("answer")
        /\ (CallSendIceCandidate /\ Connected(chan)) => SendsEnvelope("candidate")]_vars

C29_Witness ==
  /\ Connected(chan)
  /\ chan.call = "sendIceCandidate"
  /\ chan.clients[chan.client].sent =
       <<PeerInfoFrame(1, 2), PeerMsgFrame(2, "answer", 2), PeerMsgFrame(2, "candidate", 3)>>

\* disconnect() leaves the client without timer and without socket, and a
\* second call leaves it as the first did
TornDownOnce(c) ==
  LET once == disconnect(c)
  IN /\ once.timers = 0 /\ once.heartbeatTimer = 0
     /\ ~once.ws /\ (c.ws => once.readyState \notin {"CONNECTING", "OPEN"})
     /\ disconnect(once) = once

\* C30: disconnect() stops the heartbeat and closes the socket if there is
\* one; called again, or on a client that never connected, or through
\* disconnectSignaling when no client exists, it raises nothing and leaves the
\* state a single call leaves.
C30_DisconnectIsIdempotent ==
  /\ \A i \in Clients : TornDownOnce(chan.clients[i])
  /\ \A key \in SignalingKeys :
       disconnect(BrowserSignalingClient(key)) = BrowserSignalingClient(key)
  /\ disconnectSignaling(chan).result = "returned"
  /\ disconnectSignaling(disconnectSignaling(chan)) = disconnectSignaling(chan)

C30_Witness ==
  /\ chan.call = "disconnectSignaling" /\ chan.result = "returned"
  /\ chan.client = 0
  /\ \E i \in Clients :
       /\ chan.clients[i].readyState = "CLOSING"
       /\ chan.clients[i].promise = "resolved"
       /\ ~chan.clients[i].ws
       /\ Len(chan.clients[i].sent) = 2

\* the timer and the socket a client holds
Holding(c) == [heartbeatTimer |-> c.heartbeatTimer, timers |-> c.timers, ws |-> c.ws]

\* C31: when the server closes an open socket, a disconnected event with the
\* close reason is emitted, and the client is left as disconnect() would
\* leave it: no heartbeat timer and no socket held.
C31_RemoteCloseTearsDown ==
  [][\A i \in Clients, reason \in CloseReasons :
       (SocketCloses(i, reason) /\ chan.clients[i].readyState = "OPEN")
         => /\ \E n \in 1 .. Len(chan'.events) :
                 /\ chan'.events[n].type = "disconnected"
                 /\ reason # "" => chan'.events[n].detail = reason
            /\ Holding(chan'.clients[i]) = Holding(disconnect(chan.clients[i]))
            /\ ~chan'.clients[i].ws]_vars

\* the acknowledgments among the frames a client sent, in the order sent
RECURSIVE Acks(_)
Acks(sent) ==
  IF sent = <<>> THEN <<>>
  ELSE IF sent[1].ack # 0 THEN <<sent[1].ack>> \o Acks(Tail(sent))
  ELSE Acks(Tail(sent))

\* the ackids of the first n frames that arrived, in the order of arrival
RECURSIVE AckIdsAsked(_, _)
AckIdsAsked(arrivals, n) ==
  IF n = 0 THEN <<>>
  ELSE AckIdsAsked(arrivals, n - 1) \o
       (IF arrivals[n].ackid # 0 /\ arrivals[n].peerInfoId # 2
        THEN <<arrivals[n].ackid>> ELSE <<>>)

\* C32: the frames a connection received are handled one at a time in the
\* order of arrival: the acknowledgments sent so far are those of the frames
\* handled so far, in arrival order, and each message event handles the
\* oldest unhandled frame to its end, emitting the events of that frame only.
C32_FramesHandledInArrivalOrder ==
  /\ [](\A i \in Clients :
         Acks(chan.clients[i].sent) =
           AckIdsAsked(chan.clients[i].arrivals, chan.clients[i].handled))
  /\ [][\A i \in Clients :
          MessageEvent(i) =>
            LET c == chan.clients[i]
                frame == c.arrivals[c.handled + 1]
            IN /\ chan'.clients[i].handled = c.handled + 1
               /\ chan'.events = handleMessage(c, frame).events
               /\ chan'.clients[i].sent = handleMessage(c, frame).c.sent]_vars

C32_Witness ==
  /\ Connected(chan)
  /\ Len(chan.clients[chan.client].arrivals) = 3
  /\ chan.clients[chan.client].handled = 2
  /\ Acks(chan.clients[chan.client].sent) = <<8, 7>>
  /\ chan.events = <<Event("offer", "sdp")>>

\* C37: connectSignaling with the key of the current client skips the
\* creation of a socket only while that client's socket is connected: when
\* the socket is closed, after a failed attempt or a close by the server,
\* the call creates a new socket.
C37_SameKeyReconnects ==
  [][\A key \in SignalingKeys :
       (/\ CallConnectSignaling(key)
        /\ chan.client # 0 /\ chan.key = key
        /\ chan.clients[chan.client].readyState = "CLOSED")
         => SocketsCreated(chan'.clients) = SocketsCreated(chan.clients) + 1]_vars

\* the current client put exactly one relay frame on its open socket
OneRelayFrameSent(msg) ==
  /\ Connected(chan)
  /\ chan'.clients[chan.client].sent # chan.clients[chan.client].sent
  /\ Len(chan'.clients[chan.client].sent) = Len(chan.clients[chan.client].sent) + 1
  /\ chan'.clients[chan.client].sent[Len(chan'.clients[chan.client].sent)].msg = msg

\* C38: a call of sendAnswer or sendIceCandidate either puts exactly one
\* relay frame on the open socket or raises an error to its caller.
C38_SendNeverLosesPayload ==
  [][/\ CallSendAnswer => (chan'.result = "threw" \/ OneRelayFrameSent("answer"))
     /\ CallSendIceCandidate =>
          (chan'.result = "threw" \/ OneRelayFrameSent("candidate"))]_vars

\* ---- the descriptor the signaling URL is built from

\* the call returned on an answer whose usage-14 descriptor has a resource
\* path and an ip field, or a resource path that supplied the host
ClaimedWithTaggedDescriptor ==
  /\ CallDone("claimSession") /\ ReadyAnswer(cm.response)
  /\ cm.result.kind = "returned"
  /\ \E i \in 1 .. Len(cm.response.data.connectionInfo) :
       cm.response.data.connectionInfo[i].usage = 14
  /\ TaggedPath(cm.response.data) # <<>>
  /\ \/ TaggedWithIp(cm.response.data)
     \/ cm.result.info.serverIp = UsableSchemeHost(TaggedPath(cm.response.data))

\* C39: the signalingUrl is built from the resource path of the usage-14
\* descriptor, the one the signaling host comes from, also when that
\* descriptor has no direct IP; never from another descriptor's path or from
\* the default path.
C39_UrlFromTaggedDescriptor ==
  ClaimedWithTaggedDescriptor =>
    cm.result.info.signalingUrl =
      buildSignalingUrl(TaggedPath(cm.response.data), cm.result.info.serverIp).signalingUrl

\* ---- logout under interleaving

\* neither the service nor the credential store holds a session
LoggedOut == ~session.present /\ ~storage.session.present

\* C33: once logout() has completed, the session in memory and the persisted
\* one stay none, whatever call completes afterwards; no login is among the
\* steps, so no step leads from the logged-out state to a state with a
\* session.
C33_LogoutIsDurable == [][LoggedOut => LoggedOut']_vars

\* ---- refreshes of one call

\* C34: an ensureValidSessionWithStatus call makes at most one refresh: the
\* tier enrichment that follows its refresh (enrichUserTier, getSubscription,
\* ensureValidSession) never calls lockedRefresh again, whatever lifetime the
\* granted tokens have.
C34_AtMostOneRefreshPerCall ==
  /\ \A p \in Callers :
       (stack[p] # <<>> /\ stack[p][1].fn = "ensure") => lockCalls[p] <= 1
  /\ last.op = "ensure" => last.locks <= 1


\* a refresh this task awaited gave tokens that are not yet in the session
Uninstalled(p) == Awaiting(p, "userinfo")

\* the session still holds the tokens the task's refresh started from
HoldsPreRefresh(p) ==
  /\ session.present
  /\ session.tokens = stack[p][Len(stack[p])].tokens

\* C35: the result of a successful refresh is in the session by the time the
\* refresh lock is released: while the lock is free the session never holds the
\* pre-refresh tokens of a refresh that succeeded, and no refresh operation is
\* started with the refresh token such a refresh already used.
C35_InstalledBeforeLockReleased ==
  \A p \in Tasks :
    (Uninstalled(p) /\ HoldsPreRefresh(p))
      => /\ refreshLock # NoOp
         /\ \A id \in InFlight :
              ops[id].refreshToken # stack[p][Len(stack[p])].tokens.refreshToken


\* The calls a listener subscribed through the platform's onSessionExpired
\* got: every callback registered with the service (one per subscription)
\* calls each listener of the platform's set (part_001 320-322).
Notifications(l, reason) ==
  { <<i, callback>> \in (DOMAIN emitted) \X Listeners :
      /\ emitted[i].reason = reason
      /\ callback \in emitted[i].to
      /\ l \in emitted[i].to }

\* C36: a subscribed listener is notified once per session expiry: it gets no
\* more "refresh failed" notifications than there were refresh operations, also
\* when several handleApiError calls shared the failed one, and a notification
\* goes only to listeners whose disposer has not been called.
C36_OneNotificationPerExpiry ==
  /\ [](\A l \in Listeners :
          Cardinality(Notifications(l, "Session expired. Refresh failed."))
            <= Len(ops))
  /\ [][Len(emitted') > Len(emitted)
          => emitted'[Len(emitted')].to = listeners]_vars


\* some login() call has not returned yet
LoginInProgress ==
  \E p \in Callers : stack[p] # <<>> /\ stack[p][1].fn = "login"

\* C40: pendingPkce is none whenever no login is in progress: however a login
\* ended (success, callback without code, authorization surface cancelled or
\* failed, token exchange failed), it left pendingPkce cleared.
C40_NoPkceOutsideLogin == ~LoginInProgress => pendingPkce = NoPkce

====
